---------------------------- MODULE Spec2Model ----------------------------
(***************************************************************************)
(* A model of crypt-sync: the stream transformers (Encryptor, Decryptor,   *)
(* ZstdEncoder, ZstdDecoder, TextEncoder, TextDecoder), the byte-pull      *)
(* helper, write_all_to, min_mkdir_set, basename_ciphertexts,              *)
(* path_ciphertexts and CryptSyncer::sync.                                 *)
(*                                                                         *)
(* Four specifications share the variables; each leaves the variables of   *)
(* the others at their initial value:                                      *)
(*   SpecPipe   one pipeline built by compose_encoders! and read by a      *)
(*              caller, one read or one write_all_to per step              *)
(*   SpecMkdir  the fold of min_mkdir_set, one folded element per step     *)
(*   SpecNames  two runs of basename_ciphertexts by parallel workers       *)
(*   SpecSync   CryptSyncer::sync by parallel workers                      *)
(***************************************************************************)
EXTENDS Integers, Sequences, FiniteSets, TLC

VARIABLES
    \* ---- SpecPipe
    pipe,       \* the stages of the pipeline, pipe[1] the innermost source
    input,      \* the bytes the innermost source was built over
    key,        \* the key every Encryptor/Decryptor of the pipeline was given
    shape,      \* the names of the composed stages, innermost first
    phase,      \* "encode": first pipeline; "decode": the inverse over its output;
                \* "pull": SpecPull, the caller calls pull on the source
    out,        \* the bytes the caller's reads have returned so far, in order
    lastLen,    \* the target length of the last caller read (-1: none yet)
    lastRet,    \* what the last caller read returned (-1: none yet)
    zeroSeen,   \* some caller read has returned 0
    eosSeen,    \* some caller read with a target of length >= 1 has returned 0
    lateBytes,  \* a read returned > 0 after zeroSeen (resp. after eosSeen)
    pstatus,    \* "run" | "err" (a read returned Err) | "panic"
    \* ---- SpecMkdir
    dirsIn,     \* the collection of directory paths handed to min_mkdir_set
    todoDirs,   \* the elements the fold has still to visit
    acc,        \* the fold's accumulator
    \* ---- SpecNames and SpecSync
    tree,       \* the source tree: path -> "dir" | "file", for the paths under the root
    master,     \* the key_hash handed to sync / basename_ciphertexts
    run,        \* SpecNames: which run of basename_ciphertexts is under way (0: none)
    iter,       \* paths the shared find() iterator has still to yield
    inflight,   \* paths the workers took from the iterator and have not yet collected
    bcMap,      \* the basename map being collected: path -> ciphertext
    bcFirst,    \* SpecNames: the basename map of the first run
    npanic,     \* SpecNames: a worker of basename_ciphertexts panicked
    \* ---- SpecSync
    sphase,     \* where sync is: "idle" | "start" | "mkdir" | "files" | "todo" | "panic"
    pathMap,    \* src_to_target: source path -> ciphertext path
    mkTodo,     \* elements of the mkdir set not yet handed to create_dir_all
    destDirs,   \* directories that exist under out_dir (ciphertext paths)
    destFiles,  \* files under out_dir: ciphertext path -> content
    arena,      \* scratch files: scratch name -> content
    fstate,     \* per source file of the path map, how far its worker is
    ioFault,    \* per source file, the I/O fault its worker met ("none" if none)
    spanic,     \* a worker of sync panicked
    outDir,     \* what out_dir is when sync is called: "dir" | "file" | "missing"
    arenaDir,   \* the scratch directory: "none" | "live" | "removed"
    destFirst,  \* the names under out_dir when the first of two syncs had ended
    \* ---- SpecHash
    hashArgs,   \* the arguments hash_custom is called with: secret, salt, iterations
    hashOut,    \* what the calls of hash_custom so far returned, in order
    \* ---- SpecCryptFile
    cfLate,     \* the paths whose modification time is later than the clock
    cfile,      \* what CryptFile::new returned (<<>> before the call)
    \* ---- SpecRace
    mkWork      \* the workers of the mkdir chain that have started: for each
                \* directory of the mkdir set, where its create_dir_all stands

pipeVars == <<pipe, input, key, shape, phase, out, lastLen, lastRet, zeroSeen,
              eosSeen, lateBytes, pstatus>>
\* the variables of the operations checked on their own: min_mkdir_set,
\* hash_custom, CryptFile::new and the workers of the mkdir chain
mkdirVars == <<dirsIn, todoDirs, acc, hashArgs, hashOut, cfLate, cfile, mkWork>>
nameVars == <<tree, master, run, iter, inflight, bcMap, bcFirst, npanic>>
syncVars == <<sphase, pathMap, mkTodo, destDirs, destFiles, arena, fstate, ioFault,
              spanic, outDir, arenaDir, destFirst>>
vars == <<pipeVars, mkdirVars, nameVars, syncVars>>

-----------------------------------------------------------------------------
(* Bounds of the model. *)

\* longest input byte sequence of a pipeline
MaxLen == 3
\* largest target buffer a caller hands to read
MaxTarget == 2
\* size of the reads zstd's BufReader issues on its inner source
ZstdInBuf == 2

\* deepest directory path handed to min_mkdir_set
MaxDepth == 3
\* most directory paths handed to min_mkdir_set
MaxDirs == 3

\* most paths (the root included) of a source tree handed to sync
MaxNodes == 4
\* most paths (the root included) of a source tree handed to basename_ciphertexts
MaxNamesNodes == 3

\* values the input bytes are drawn from
InputBytes == {0, 97}

Min(a, b) == IF a < b THEN a ELSE b
Max(a, b) == IF a > b THEN a ELSE b

RECURSIVE SeqsUpTo(_, _)
SeqsUpTo(S, n) ==
    IF n = 0 THEN {<<>>}
    ELSE LET shorter == SeqsUpTo(S, n - 1)
         IN  shorter \cup {Append(s, x) : s \in {t \in shorter : Len(t) = n - 1}, x \in S}

Take(s, n) == SubSeq(s, 1, Min(n, Len(s)))
Drop(s, n) == SubSeq(s, Min(n, Len(s)) + 1, Len(s))


-----------------------------------------------------------------------------
(* The cipher: AES-256 in CFB mode as openssl::symm::Crypter runs it.  The    *)
(* block cipher is a stand-in (a keyed byte function); the mode is kept: the  *)
(* keystream of a byte depends on the key and, through the feedback register, *)
(* on the ciphertext before it, the register lives across update calls, the   *)
(* output of update is as long as its input and finalize adds nothing.        *)

\* cipher.block_size() of aes_256_cfb128, a stream mode
BlockSize == 1
\* bytes of the key Crypter::new is given
KeyLen == 32
\* last byte of INITIALIZATION_VECTOR, the initial feedback register
IvLast == 15

\* a key: `id` stands for its first 32 bytes, `len` is its length
DefaultKey == [id |-> 1, len |-> 32]
Keys == {[id |-> 1, len |-> 16], DefaultKey, [id |-> 2, len |-> 64]}

RECURSIVE Xor(_, _)
Xor(a, b) ==
    IF a = 0 THEN b
    ELSE IF b = 0 THEN a
    ELSE 2 * Xor(a \div 2, b \div 2) + (((a % 2) + (b % 2)) % 2)

KeyStream(k, reg) == (k * 83 + reg * 7 + 29) % 256

\* an update that writes the bytes of one call in reverse order
RECURSIVE EncryptUpdateReversed(_, _, _)
EncryptUpdateReversed(k, reg, buf) ==
    IF buf = <<>> THEN [reg |-> reg, bytes |-> <<>>]
    ELSE LET c == Xor(Head(buf), KeyStream(k, reg))
             rest == EncryptUpdateReversed(k, c, Tail(buf))
         IN  [reg |-> rest.reg, bytes |-> rest.bytes \o <<c>>]

\* Crypter::update in Mode::Encrypt over `buf`, from feedback register `reg`
RECURSIVE EncryptUpdate(_, _, _)
EncryptUpdate(k, reg, buf) ==
    IF buf = <<>> THEN [reg |-> reg, bytes |-> <<>>]
    ELSE LET c == Xor(Head(buf), KeyStream(k, reg))
             rest == EncryptUpdate(k, c, Tail(buf))
         IN  [reg |-> rest.reg, bytes |-> <<c>> \o rest.bytes]

\* Crypter::update in Mode::Decrypt
RECURSIVE DecryptUpdate(_, _, _)
DecryptUpdate(k, reg, buf) ==
    IF buf = <<>> THEN [reg |-> reg, bytes |-> <<>>]
    ELSE LET p == Xor(Head(buf), KeyStream(k, reg))
             rest == DecryptUpdate(k, Head(buf), Tail(buf))
         IN  [reg |-> rest.reg, bytes |-> <<p>> \o rest.bytes]

\* a Crypter that starts from the initialization vector on every call
CrypterUpdateFresh(mode, k, reg, buf) ==
    IF mode = "Encrypt" THEN EncryptUpdate(k, IvLast, buf) ELSE DecryptUpdate(k, IvLast, buf)

CrypterUpdate(mode, k, reg, buf) ==
    IF mode = "Encrypt" THEN EncryptUpdate(k, reg, buf) ELSE DecryptUpdate(k, reg, buf)

\* Crypter::finalize: a stream mode holds no partial block, so nothing is left
\* to write
CrypterFinalize(mode, k, reg) == <<>>

-----------------------------------------------------------------------------
(* The compressor: zstd::stream::read::{Encoder, Decoder}.  The codec is a    *)
(* stand-in with the library's contract: a frame that starts with a magic     *)
(* byte and carries the input run-length coded; decoding a text that is not   *)
(* a whole frame is an error, decoding no bytes at all yields no bytes.       *)

\* the frame header
ZstdMagic == <<40>>

RECURSIVE RunLen(_, _)
RunLen(s, b) == IF s # <<>> /\ Head(s) = b THEN 1 + RunLen(Tail(s), b) ELSE 0

RECURSIVE RLE(_)
RLE(s) ==
    IF s = <<>> THEN <<>>
    ELSE LET n == Min(RunLen(s, Head(s)), 255)
         IN  <<n, Head(s)>> \o RLE(Drop(s, n))

RECURSIVE Repeat(_, _)
Repeat(b, n) == IF n = 0 THEN <<>> ELSE <<b>> \o Repeat(b, n - 1)

RECURSIVE UnRLE(_)
UnRLE(c) ==
    IF Len(c) < 2 THEN <<>>
    ELSE Repeat(c[2], c[1]) \o UnRLE(Drop(c, 2))

ZstdCompress(s) == ZstdMagic \o RLE(s)

ZstdFrameOk(c) ==
    \/ c = <<>>
    \/ /\ Take(c, 1) = ZstdMagic
       /\ (Len(c) - 1) % 2 = 0
       /\ \A i \in 1..((Len(c) - 1) \div 2) : c[2 * i] > 0

ZstdDecompress(c) == IF c = <<>> THEN <<>> ELSE UnRLE(Tail(c))

-----------------------------------------------------------------------------
(* The text codec: data_encoding's RFC4648 encodings BASE16, BASE32, BASE64,  *)
(* computed on the bits.                                                      *)

Encodings == {"BASE16", "BASE32", "BASE64"}

\* bits per symbol: log2 of the number of symbols
SymBits(enc) == CASE enc = "BASE16" -> 4 [] enc = "BASE32" -> 5 [] OTHER -> 6

\* symbols of a padded block (BASE16 is not padded)
PadBlock(enc) == CASE enc = "BASE16" -> 1 [] enc = "BASE32" -> 8 [] OTHER -> 4

PadChar == 61

\* the ASCII code of symbol i of the alphabet
Symbol(enc, i) ==
    CASE enc = "BASE16" -> IF i < 10 THEN 48 + i ELSE 55 + i
      [] enc = "BASE32" -> IF i < 26 THEN 65 + i ELSE 24 + i
      [] OTHER -> IF i < 26 THEN 65 + i
                  ELSE IF i < 52 THEN 71 + i
                  ELSE IF i < 62 THEN i - 4
                  ELSE IF i = 62 THEN 43 ELSE 47

RECURSIVE Pow2(_)
Pow2(n) == IF n = 0 THEN 1 ELSE 2 * Pow2(n - 1)

\* bit `pos` (0-based, most significant first) of a sequence of w-bit units
BitAt(units, w, pos) ==
    IF pos \div w + 1 > Len(units) THEN 0
    ELSE (units[pos \div w + 1] \div Pow2(w - 1 - (pos % w))) % 2

\* the value of the `n` bits from `pos` on
RECURSIVE BitsVal(_, _, _, _)
BitsVal(units, w, pos, n) ==
    IF n = 0 THEN 0
    ELSE 2 * BitsVal(units, w, pos, n - 1) + BitAt(units, w, pos + n - 1)

CeilDiv(a, b) == (a + b - 1) \div b

\* encoding.encode(data)
Encode(enc, data) ==
    LET w == SymBits(enc)
        nsym == CeilDiv(8 * Len(data), w)
        total == CeilDiv(nsym, PadBlock(enc)) * PadBlock(enc)
    IN  [k \in 1..total |->
            IF k <= nsym THEN Symbol(enc, BitsVal(data, 8, (k - 1) * w, w))
            ELSE PadChar]

SymbolValues(enc) == 0..(Pow2(SymBits(enc)) - 1)
IsSymbol(enc, c) == \E i \in SymbolValues(enc) : Symbol(enc, i) = c
ValueOf(enc, c) == CHOOSE i \in SymbolValues(enc) : Symbol(enc, i) = c

\* the number of symbols before the padding
RECURSIVE DataLen(_)
DataLen(text) ==
    IF text # <<>> /\ text[Len(text)] = PadChar
    THEN DataLen(SubSeq(text, 1, Len(text) - 1))
    ELSE Len(text)

\* encoding.decode(text) succeeds: whole blocks, symbols of the alphabet,
\* padding only where a block needs it, no stray bits
Decodable(enc, text) ==
    LET w == SymBits(enc)
        d == DataLen(text)
        nbytes == (d * w) \div 8
        vals == [k \in 1..d |-> ValueOf(enc, text[k])]
    IN  /\ Len(text) % PadBlock(enc) = 0
        /\ enc = "BASE16" => Len(text) % 2 = 0
        /\ \A k \in 1..d : IsSymbol(enc, text[k])
        /\ enc # "BASE16" => Len(text) = CeilDiv(d, PadBlock(enc)) * PadBlock(enc)
        /\ d * w - 8 * nbytes < w
        /\ BitsVal(vals, w, 8 * nbytes, d * w - 8 * nbytes) = 0

\* encoding.decode(text), for a decodable text
Decode(enc, text) ==
    LET w == SymBits(enc)
        d == DataLen(text)
        nbytes == (d * w) \div 8
        vals == [k \in 1..d |-> ValueOf(enc, text[k])]
    IN  [j \in 1..nbytes |-> BitsVal(vals, w, 8 * (j - 1), 8)]

-----------------------------------------------------------------------------
(* The stages of a pipeline.  A pipeline is a sequence of stages, st[1] the   *)
(* innermost byte source and st[i] the transformer wrapping st[i-1].  Every   *)
(* read returns [st, out, res]: the pipeline after the read, the bytes put    *)
(* into the target, and "ok" (Ok(Len(out))), "err" (an Err) or "panic".       *)

NoKey == [id |-> 0, len |-> 0]

BlankStage ==
    [kind |-> "Slice", data |-> <<>>, fail |-> -1, key |-> NoKey, reg |-> 0,
     fin |-> FALSE, enc |-> "BASE16", decode |-> FALSE, block_size |-> 0,
     src_pull_size |-> 0, src_buf_pull_size |-> 0, src_buf |-> <<>>,
     enc_buf |-> <<>>]

\* a byte slice (fail = -1), or a file whose read fails once `fail` bytes were read
SourceStage(bytes, fail) == [BlankStage EXCEPT !.data = bytes, !.fail = fail]

\* buf_size.unwrap_or(2048)
DefaultBufSize == 2048
\* the drain buffer of write_all_to when buf_size is None or Some(0)
DefaultDrainSize == 4096

RECURSIVE ReadStage(_, _, _)
RECURSIVE PullLoop(_, _, _, _)

\* Read for the innermost source: up to L of the remaining bytes
SourceRead(st, i, L) ==
    LET s == st[i]
        avail == IF s.fail >= 0 THEN Min(s.fail, Len(s.data)) ELSE Len(s.data)
        n == Min(L, avail)
    IN  IF s.fail = 0 /\ L > 0
        THEN [st |-> st, out |-> <<>>, res |-> "err"]
        ELSE [st |-> [st EXCEPT ![i].data = Drop(s.data, n),
                                ![i].fail = IF s.fail >= 0 THEN s.fail - n ELSE -1],
              out |-> Take(s.data, n), res |-> "ok"]

\* the loop of pull: `n` more calls of Bytes::next, each a read of one byte
PullLoop(st, i, n, buf) ==
    IF n = 0 THEN [st |-> st, buf |-> buf, res |-> "ok"]
    ELSE LET Next1(r) ==
                 IF r.res # "ok" THEN [st |-> r.st, buf |-> <<>>, res |-> r.res]
                 ELSE IF r.out = <<>> THEN [st |-> r.st, buf |-> buf, res |-> "ok"]
                 ELSE PullLoop(r.st, i, n - 1, buf \o r.out)
         IN  Next1(ReadStage(st, i, 1))

\* a pull whose loop runs once more than asked
pull_once_more(st, i, size) == PullLoop(st, i, size + 1, <<>>)

\* pull(source, size) on stage i: buf = <<>> stands for None
pull(st, i, size) == PullLoop(st, i, size, <<>>)

\* input_size of Encryptor/Decryptor::read, for a target long enough
InputSizeNoMax(L) == L - BlockSize
InputSize(L) == Max(1, L - BlockSize)

\* Encryptor/Decryptor::read
CryptorRead(st, i, L) ==
    LET s == st[i]
        mode == IF s.kind = "Encryptor" THEN "Encrypt" ELSE "Decrypt"
        input_size == InputSize(L)
        \* update's own assertion on the room in `output`
        room == IF BlockSize > 1 THEN BlockSize ELSE 0
    IN  IF L - BlockSize < 0
        THEN \* usize underflow: a panic, or with wrapping arithmetic a pull of
             \* usize::MAX bytes whose Vec::with_capacity panics
             [st |-> st, out |-> <<>>, res |-> "panic"]
        ELSE IF input_size = 1 /\ BlockSize # 1
        THEN [st |-> st, out |-> <<>>, res |-> "panic"]
        ELSE LET \* the arm `0 =>` of the match on update's count: a second pull
                 \* that must find nothing, then finalize into the target
                 Finalized(q) ==
                     IF q.res # "ok" \/ q.buf # <<>>
                     THEN [st |-> q.st, out |-> <<>>, res |-> "panic"]
                     ELSE [st |-> [q.st EXCEPT ![i].fin = TRUE],
                           out |-> CrypterFinalize(mode, s.key.id, s.reg), res |-> "ok"]
                 Updated(p, u) ==
                     IF Len(u.bytes) = 0
                     THEN Finalized(pull(p.st, i - 1, input_size))
                     ELSE [st |-> [p.st EXCEPT ![i].reg = u.reg], out |-> u.bytes,
                           res |-> "ok"]
                 Pulled(p) ==
                     IF p.res # "ok" THEN [st |-> p.st, out |-> <<>>, res |-> p.res]
                     ELSE IF p.buf = <<>> THEN [st |-> p.st, out |-> <<>>, res |-> "ok"]
                     ELSE IF L < Len(p.buf) + room
                     THEN [st |-> p.st, out |-> <<>>, res |-> "panic"]
                     ELSE Updated(p, CrypterUpdate(mode, s.key.id, s.reg, p.buf))
             IN  Pulled(pull(st, i - 1, input_size))

\* what zstd's reader does on its first read: it reads its inner source to
\* the end through its BufReader
RECURSIVE ZstdFill(_, _, _)
ZstdFill(st, i, got) ==
    LET Next1(r) ==
            IF r.res # "ok" THEN [st |-> r.st, buf |-> got, res |-> r.res]
            ELSE IF r.out = <<>> THEN [st |-> r.st, buf |-> got, res |-> "ok"]
            ELSE ZstdFill(r.st, i, got \o r.out)
    IN  Next1(ReadStage(st, i, ZstdInBuf))

\* ZstdEncoder/ZstdDecoder::read
ZstdRead(st, i, L) ==
    LET s == st[i]
        Emit(f, frame) ==
            [st |-> [f.st EXCEPT ![i].fin = TRUE, ![i].data = Drop(frame, Min(L, Len(frame)))],
             out |-> Take(frame, Min(L, Len(frame))), res |-> "ok"]
        Filled(f) ==
            IF f.res # "ok" THEN [st |-> f.st, out |-> <<>>, res |-> f.res]
            ELSE IF s.kind = "ZstdDecoder" /\ ~ZstdFrameOk(f.buf)
            THEN [st |-> f.st, out |-> <<>>, res |-> "err"]
            ELSE Emit(f, IF s.kind = "ZstdEncoder" THEN ZstdCompress(f.buf)
                         ELSE ZstdDecompress(f.buf))
    IN  IF s.fin THEN Emit([st |-> st], s.data)
        ELSE Filled(ZstdFill(st, i - 1, <<>>))

\* a refill that overwrites what is left in src_buf instead of appending
replenish_src_buf_overwriting(st, i) ==
    LET Pulled(p) ==
            IF p.res # "ok" THEN [st |-> p.st, n |-> 0, res |-> p.res]
            ELSE [st |-> [p.st EXCEPT ![i].src_buf = p.buf],
                  n |-> Len(p.buf), res |-> "ok"]
    IN  Pulled(pull(st, i - 1, st[i].src_pull_size))

\* TextEncoder::replenish_src_buf; n is the count it returns
replenish_src_buf(st, i) ==
    LET Pulled(p) ==
            IF p.res # "ok" THEN [st |-> p.st, n |-> 0, res |-> p.res]
            ELSE [st |-> [p.st EXCEPT ![i].src_buf = @ \o p.buf],
                  n |-> Len(p.buf), res |-> "ok"]
    IN  Pulled(pull(st, i - 1, st[i].src_pull_size))

\* TextEncoder::replenish_enc_buf
replenish_enc_buf(st, i) ==
    LET s == st[i]
    IN  IF s.block_size = 0 THEN [st |-> st, n |-> 0, res |-> "panic"]
        ELSE
        LET block_count == Len(s.src_buf) \div s.block_size
            Coded(r, bytes_to_pull, coded) ==
                [st |-> [r.st EXCEPT ![i].src_buf = Drop(@, bytes_to_pull),
                                     ![i].enc_buf = @ \o coded],
                 n |-> Len(coded), res |-> "ok"]
            Moved(r, bytes_to_pull, bytes) ==
                IF bytes_to_pull = 0 THEN [st |-> r.st, n |-> 0, res |-> "ok"]
                ELSE IF s.decode /\ ~Decodable(s.enc, bytes)
                THEN [st |-> [r.st EXCEPT ![i].src_buf = Drop(@, bytes_to_pull)],
                      n |-> 0, res |-> "err"]
                ELSE Coded(r, bytes_to_pull,
                           IF s.decode THEN Decode(s.enc, bytes) ELSE Encode(s.enc, bytes))
            Sized(r, bytes_to_pull) ==
                Moved(r, bytes_to_pull, Take(r.st[i].src_buf, bytes_to_pull))
            Replenished(r) ==
                IF r.res # "ok" THEN [st |-> r.st, n |-> 0, res |-> r.res]
                ELSE Sized(r, Min(IF block_count = 0 THEN Len(s.src_buf) + r.n
                                  ELSE block_count * s.block_size,
                                  s.src_buf_pull_size))
        IN  Replenished(IF block_count = 0 THEN replenish_src_buf(st, i)
                        ELSE [st |-> st, n |-> 0, res |-> "ok"])

\* TextEncoder::read (TextDecoder::read delegates to it)
TextRead(st, i, L) ==
    LET s == st[i]
        Transfer(b, num_bytes_to_write) ==
            [st |-> [b.st EXCEPT ![i].enc_buf = Drop(@, num_bytes_to_write)],
             out |-> Take(b.st[i].enc_buf, num_bytes_to_write), res |-> "ok"]
        Populated(b) ==
            IF b.res # "ok" THEN [st |-> b.st, out |-> <<>>, res |-> b.res]
            ELSE Transfer(b, IF L = 0 THEN 0 ELSE Min(Len(b.st[i].enc_buf), L))
        SrcTried(a) ==
            Populated(IF Len(s.enc_buf) = 0 /\ a.res = "ok"
                      THEN replenish_enc_buf(a.st, i) ELSE a)
    IN  SrcTried(IF Len(s.enc_buf) = 0 /\ Len(s.src_buf) = 0
                 THEN replenish_src_buf(st, i)
                 ELSE [st |-> st, n |-> 0, res |-> "ok"])

ReadStage(st, i, L) ==
    CASE st[i].kind \in {"Slice"} -> SourceRead(st, i, L)
      [] st[i].kind \in {"Encryptor", "Decryptor"} -> CryptorRead(st, i, L)
      [] st[i].kind \in {"ZstdEncoder", "ZstdDecoder"} -> ZstdRead(st, i, L)
      [] OTHER -> TextRead(st, i, L)

\* a caller's read of the whole pipeline
read(st, L) == ReadStage(st, Len(st), L)

\* a drain loop that adds one to count per chunk
RECURSIVE WriteLoopCountingChunks(_, _, _)
WriteLoopCountingChunks(st, size, w) ==
    LET Next1(r) ==
            IF r.res # "ok"
            THEN [st |-> r.st, target |-> w.target, count |-> w.count, res |-> r.res]
            ELSE IF r.out = <<>>
            THEN [st |-> r.st, target |-> w.target, count |-> w.count, res |-> "ok"]
            ELSE IF w.room >= 0 /\ Len(w.target) + Len(r.out) > w.room
            THEN [st |-> r.st, target |-> w.target \o Take(r.out, w.room - Len(w.target)),
                  count |-> w.count, res |-> "err"]
            ELSE WriteLoopCountingChunks(r.st, size,
                                         [w EXCEPT !.target = @ \o r.out, !.count = @ + 1])
    IN  Next1(read(st, size))

\* CryptEncoder::write_all_to: read into a buffer of `size` bytes until a read
\* returns 0.  w.target collects what was written and w.count is `count`;
\* w.room is how many bytes the target takes before its write_all fails
\* (-1: it never fails).  A failing read or write_all ends the loop by `?`.
RECURSIVE WriteLoop(_, _, _)
WriteLoop(st, size, w) ==
    LET Next1(r) ==
            IF r.res # "ok"
            THEN [st |-> r.st, target |-> w.target, count |-> w.count, res |-> r.res]
            ELSE IF r.out = <<>>
            THEN [st |-> r.st, target |-> w.target, count |-> w.count, res |-> "ok"]
            ELSE IF w.room >= 0 /\ Len(w.target) + Len(r.out) > w.room
            THEN [st |-> r.st, target |-> w.target \o Take(r.out, w.room - Len(w.target)),
                  count |-> w.count, res |-> "err"]
            ELSE WriteLoop(r.st, size,
                           [w EXCEPT !.target = @ \o r.out, !.count = @ + Len(r.out)])
    IN  Next1(read(st, size))

\* a drain loop that takes a read shorter than its buffer for the last one
RECURSIVE WriteLoopShort(_, _, _)
WriteLoopShort(st, size, target) ==
    LET Next1(r) ==
            IF r.res # "ok" THEN [st |-> r.st, target |-> target, res |-> r.res]
            ELSE IF Len(r.out) < size THEN [st |-> r.st, target |-> target \o r.out, res |-> "ok"]
            ELSE WriteLoopShort(r.st, size, target \o r.out)
    IN  Next1(read(st, size))

write_all_to_short(st, buf_size) ==
    WriteLoopShort(st, IF buf_size = 0 THEN DefaultDrainSize ELSE buf_size, <<>>)

\* write_all_to into a target that takes `room` bytes; buf_size = 0 stands
\* for None and for Some(0)
write_all_to_env(st, buf_size, room) ==
    WriteLoop(st, IF buf_size = 0 THEN DefaultDrainSize ELSE buf_size,
              [target |-> <<>>, count |-> 0, room |-> room])

\* write_all_to into a target that never fails
write_all_to(st, buf_size) == write_all_to_env(st, buf_size, -1)

-----------------------------------------------------------------------------
(* Construction: the new functions and compose_encoders!.                     *)

\* Encryptor/Decryptor::new: asserts the key length, keeps the first 32 bytes
CryptorNew(kind, k) ==
    IF k.len < KeyLen THEN [stage |-> BlankStage, res |-> "panic"]
    ELSE [stage |-> [BlankStage EXCEPT !.kind = kind, !.key = k, !.reg = IvLast],
          res |-> "ok"]

ZstdNew(kind) == [stage |-> [BlankStage EXCEPT !.kind = kind], res |-> "ok"]

\* TextEncoder::new_custom; the block sizer of TextDecoder::new multiplies by 8
\* a constructor that gives the decoder the encoder's block size
TextNewOneBlockSize(kind, enc, buf_size) ==
    LET block_size == SymBits(enc)
    IN  IF buf_size - block_size < 0
        THEN [stage |-> BlankStage, res |-> "panic"]
        ELSE [stage |-> [BlankStage EXCEPT
                            !.kind = kind, !.enc = enc,
                            !.decode = (kind = "TextDecoder"),
                            !.block_size = block_size,
                            !.src_pull_size = buf_size - block_size,
                            !.src_buf_pull_size = (buf_size * block_size) \div 8],
              res |-> "ok"]

TextNew(kind, enc, buf_size) ==
    LET block_size == IF kind = "TextDecoder" THEN SymBits(enc) * 8 ELSE SymBits(enc)
    IN  IF buf_size - block_size < 0
        THEN [stage |-> BlankStage, res |-> "panic"]
        ELSE [stage |-> [BlankStage EXCEPT
                            !.kind = kind, !.enc = enc,
                            !.decode = (kind = "TextDecoder"),
                            !.block_size = block_size,
                            !.src_pull_size = buf_size - block_size,
                            !.src_buf_pull_size = (buf_size * block_size) \div 8],
              res |-> "ok"]

\* the buffer size of a text stage: TextDecoder::new always passes None
TextBufSize(kind, buf_size) == IF kind = "TextDecoder" THEN DefaultBufSize ELSE buf_size

StageNew(kind, k, enc, buf_size) ==
    CASE kind \in {"Encryptor", "Decryptor"} -> CryptorNew(kind, k)
      [] kind \in {"ZstdEncoder", "ZstdDecoder"} -> ZstdNew(kind)
      [] OTHER -> TextNew(kind, enc, TextBufSize(kind, buf_size))

\* a constructor under the environment: lib_err is whether the library call
\* inside it (Crypter::new, zstd's Encoder::new or Decoder::new) returns Err;
\* the assertion on the key length comes before Crypter::new
StageNewEnv(kind, k, enc, buf_size, lib_err) ==
    LET c == StageNew(kind, k, enc, buf_size)
    IN  IF lib_err /\ c.res = "ok" /\ kind \notin {"TextEncoder", "TextDecoder"}
        THEN [stage |-> BlankStage, res |-> "err"]
        ELSE c

\* a composition that goes on with the next constructor after a failure
RECURSIVE compose_past_failure(_, _, _, _, _, _)
compose_past_failure(st, kinds, k, enc, buf_size, fail_at) ==
    IF kinds = <<>> THEN [st |-> st, res |-> "ok"]
    ELSE LET c == StageNewEnv(Head(kinds), k, enc, buf_size, fail_at = 1)
         IN  compose_past_failure(IF c.res # "ok" THEN st ELSE Append(st, c.stage),
                                  Tail(kinds), k, enc, buf_size, fail_at - 1)

\* compose_encoders!(root, T1 => k, ..., Tn => k): each stage wraps the one
\* before it; after a failure no later constructor runs.  fail_at is the
\* stage whose library call fails, 0 for none
RECURSIVE compose_encoders_env(_, _, _, _, _, _)
compose_encoders_env(st, kinds, k, enc, buf_size, fail_at) ==
    IF kinds = <<>> THEN [st |-> st, res |-> "ok"]
    ELSE LET c == StageNewEnv(Head(kinds), k, enc, buf_size, fail_at = 1)
         IN  IF c.res # "ok" THEN [st |-> st, res |-> c.res]
             ELSE compose_encoders_env(Append(st, c.stage), Tail(kinds), k, enc,
                                       buf_size, fail_at - 1)

\* the composition when no library call fails
compose_encoders(st, kinds, k, enc, buf_size) ==
    compose_encoders_env(st, kinds, k, enc, buf_size, 0)

-----------------------------------------------------------------------------
(* SpecPipe: one pipeline and its caller.                                     *)

SyncShape == <<"ZstdEncoder", "Encryptor">>
InverseShape == <<"Decryptor", "ZstdDecoder">>

Shapes ==
    { <<"Encryptor">>, <<"Decryptor">>, <<"Encryptor", "Decryptor">>,
      SyncShape, SyncShape \o InverseShape, <<"ZstdEncoder", "ZstdDecoder">>,
      <<"TextEncoder">>, <<"TextDecoder">>, <<"TextEncoder", "TextDecoder">>,
      <<"Encryptor", "TextEncoder">> }

HasKind(sh, kinds) == \E j \in 1..Len(sh) : sh[j] \in kinds
HasCryptor(sh) == HasKind(sh, {"Encryptor", "Decryptor"})
HasText(sh) == HasKind(sh, {"TextEncoder", "TextDecoder"})

\* buffer sizes given to TextEncoder::new_custom
TextBufSizes == {8, DefaultBufSize}

Inputs == SeqsUpTo(InputBytes, MaxLen)

\* what has been seen of reads that follow a read that returned 0:
\* zero: a read returned bytes after some read returned 0
\* eos: a read returned bytes after a read with a target >= 1 returned 0
\* again: a read with a target >= 1 returned 0 after such a read
NoLate == [zero |-> FALSE, eos |-> FALSE, again |-> FALSE]

InitPipeIdle ==
    /\ pipe = <<>> /\ input = <<>> /\ key = NoKey /\ shape = <<>>
    /\ phase = "idle" /\ out = <<>> /\ lastLen = -1 /\ lastRet = -1
    /\ zeroSeen = FALSE /\ eosSeen = FALSE
    /\ lateBytes = NoLate
    /\ pstatus = "idle"

InitPipe ==
    \E sh \in Shapes, k \in Keys, enc \in Encodings, bs \in TextBufSizes, b \in Inputs :
        LET text == IF sh = <<"TextDecoder">> THEN Encode(enc, b) ELSE b
            c == compose_encoders(<<SourceStage(text, -1)>>, sh, k, enc, bs)
        IN  /\ HasCryptor(sh) \/ k = DefaultKey
            /\ HasText(sh) \/ enc = "BASE16"
            /\ sh = <<"TextEncoder">> \/ bs = DefaultBufSize
            /\ shape = sh
            /\ key = k
            /\ input = text
            /\ pipe = c.st
            /\ pstatus = IF c.res = "ok" THEN "run" ELSE c.res
            /\ phase = "encode"
            /\ out = <<>> /\ lastLen = -1 /\ lastRet = -1
            /\ zeroSeen = FALSE /\ eosSeen = FALSE
            /\ lateBytes = NoLate

\* one read of the pipeline by its caller, with a target of L bytes
CallerRead(L) ==
    /\ pstatus = "run"
    /\ \E r \in {read(pipe, L)} :
        LET ok == r.res = "ok"
            n == Len(r.out)
        IN /\ pipe' = r.st
           /\ pstatus' = IF ok THEN "run" ELSE r.res
           /\ out' = IF ok THEN out \o r.out ELSE out
           /\ lastLen' = L
           /\ lastRet' = IF ok THEN n ELSE -1
           /\ zeroSeen' = (zeroSeen \/ (ok /\ n = 0))
           /\ eosSeen' = (eosSeen \/ (ok /\ n = 0 /\ L >= 1))
           /\ lateBytes' = [zero |-> lateBytes.zero \/ (zeroSeen /\ ok /\ n > 0),
                            eos |-> lateBytes.eos \/ (eosSeen /\ ok /\ n > 0),
                            again |-> lateBytes.again
                                        \/ (eosSeen /\ ok /\ n = 0 /\ L >= 1)]
    /\ UNCHANGED <<input, key, shape, phase, mkdirVars, nameVars, syncVars>>

\* the caller drains the pipeline with write_all_to(target, buf_size)
Drain(buf_size) ==
    /\ pstatus = "run"
    /\ \E r \in {write_all_to(pipe, buf_size)} :
        LET ok == r.res = "ok"
            n == Len(r.target)
        IN /\ pipe' = r.st
           /\ pstatus' = IF ok THEN "run" ELSE r.res
           /\ out' = out \o r.target
           /\ lastLen' = IF buf_size = 0 THEN DefaultDrainSize ELSE buf_size
           /\ lastRet' = IF ok THEN 0 ELSE -1
           /\ zeroSeen' = (zeroSeen \/ ok)
           /\ eosSeen' = (eosSeen \/ ok)
           /\ lateBytes' = [zero |-> lateBytes.zero \/ (zeroSeen /\ n > 0),
                            eos |-> lateBytes.eos \/ (eosSeen /\ n > 0),
                            again |-> lateBytes.again \/ (eosSeen /\ ok /\ n = 0)]
    /\ UNCHANGED <<input, key, shape, phase, mkdirVars, nameVars, syncVars>>

\* the drained output of the sync pipeline is read back through the inverse
\* pipeline, built with the same key
StartDecode ==
    /\ pstatus = "run" /\ phase = "encode" /\ shape = SyncShape /\ eosSeen
    /\ LET c == compose_encoders(<<SourceStage(out, -1)>>, InverseShape, key,
                                 "BASE16", DefaultBufSize)
       IN  /\ pipe' = c.st
           /\ pstatus' = IF c.res = "ok" THEN "run" ELSE c.res
    /\ phase' = "decode"
    /\ out' = <<>> /\ lastLen' = -1 /\ lastRet' = -1
    /\ zeroSeen' = FALSE /\ eosSeen' = FALSE
    /\ lateBytes' = NoLate
    /\ UNCHANGED <<input, key, shape, mkdirVars, nameVars, syncVars>>

InitHashIdle == hashArgs = <<>> /\ hashOut = <<>>

InitCryptFileIdle == cfLate = {} /\ cfile = <<>>

InitWorkIdle == mkWork = <<>>

InitMkdirIdle ==
    /\ dirsIn = {} /\ todoDirs = {} /\ acc = {} /\ InitHashIdle /\ InitCryptFileIdle
    /\ InitWorkIdle

InitNamesIdle ==
    /\ tree = <<>> /\ master = NoKey /\ run = 0 /\ iter = {}
    /\ inflight = {} /\ bcMap = <<>> /\ bcFirst = <<>> /\ npanic = FALSE

InitSyncIdle ==
    /\ sphase = "idle" /\ pathMap = <<>> /\ mkTodo = {} /\ destDirs = {}
    /\ destFiles = <<>> /\ arena = <<>> /\ fstate = <<>> /\ ioFault = <<>>
    /\ spanic = FALSE /\ outDir = "dir" /\ arenaDir = "none"
    /\ destFirst = <<>>

NextPipe ==
    \/ \E L \in 0..MaxTarget : CallerRead(L)
    \/ \E b \in 0..MaxTarget : Drain(b)
    \/ StartDecode

InitPipeOnly == InitPipe /\ InitMkdirIdle /\ InitNamesIdle /\ InitSyncIdle

SpecPipe == InitPipeOnly /\ [][NextPipe]_vars

IsPrefix(a, b) == Len(a) <= Len(b) /\ SubSeq(b, 1, Len(a)) = a

OuterKind == IF pipe = <<>> THEN "none" ELSE pipe[Len(pipe)].kind

Transformers == {"Encryptor", "Decryptor", "TextEncoder", "TextDecoder"}

\* C1: draining ZstdDecoder(Decryptor(.)) over the drained output of
\* Encryptor(ZstdEncoder(B)) yields exactly B, for every B and every key the
\* stages accept, read back from the stored output or in one composition;
\* the inverse pipeline never fails; ZstdDecoder(ZstdEncoder(B)) drains to B.
C1_SyncRoundTrip ==
    /\ (shape = SyncShape /\ phase = "decode") =>
            /\ pstatus = "run"
            /\ eosSeen => out = input
    /\ (shape \in {SyncShape \o InverseShape, <<"ZstdEncoder", "ZstdDecoder">>}
        /\ pstatus # "panic") =>
            /\ pstatus = "run"
            /\ eosSeen => out = input

C1_Witness ==
    /\ shape = SyncShape /\ phase = "decode" /\ eosSeen
    /\ Len(input) = MaxLen /\ out = input /\ lastLen < MaxLen

\* C2: for every key of at least 32 bytes, what the reads of
\* Decryptor(Encryptor(B, key), key) have returned is always a prefix of B,
\* and is exactly B once a read has signalled the end of the stream.
C2_CryptRoundTrip ==
    (shape = <<"Encryptor", "Decryptor">> /\ key.len >= KeyLen) =>
        /\ pstatus # "err"
        /\ IsPrefix(out, input)
        /\ eosSeen => out = input

C2_Witness ==
    /\ shape = <<"Encryptor", "Decryptor">> /\ key.len > KeyLen /\ eosSeen
    /\ Len(input) = MaxLen /\ out = input /\ lastLen \in 1..(MaxLen - 1)

\* C10 as stated: once a read of a transformer has returned 0, whatever the
\* lengths of the targets (0 included), no later read returns bytes.
C10_ZeroIsDurable == OuterKind \in Transformers => ~lateBytes.zero

\* C10 amended: once a read with a target of at least one byte has returned
\* 0, no later read of the transformer returns bytes.
C10_EndOfStreamIsDurable == OuterKind \in Transformers => ~lateBytes.eos

C10_Witness ==
    /\ OuterKind \in Transformers /\ lateBytes.again /\ lastRet = 0 /\ lastLen >= 1
    /\ out # <<>>

-----------------------------------------------------------------------------
(* Paths.  A path is the sequence of its components; <<>> is the empty path  *)
(* "", which Path::parent gives for a relative path of one component.        *)

\* Path::parent is Some(_)
HasParent(p) == Len(p) > 0
\* Path::parent
Parent(p) == SubSeq(p, 1, Len(p) - 1)
\* Path::file_name
Basename(p) == p[Len(p)]

IsPathPrefix(a, b) == IsPrefix(a, b)
IsProperPrefix(a, b) == IsPrefix(a, b) /\ a # b

-----------------------------------------------------------------------------
(* SpecMkdir: min_mkdir_set.  The fold starts from the set of all the        *)
(* directories and visits them in the order of the caller's iterator; a      *)
(* step is one application of the fold's closure.                            *)

DirNames == {"a", "b"}

DirUniverse == SeqsUpTo(DirNames, MaxDepth) \ {<<>>}

\* the loop of the closure with a parent removed instead of climbed over
RECURSIVE ClimbDroppingCurrent(_, _)
ClimbDroppingCurrent(set, current) ==
    IF HasParent(current) /\ Parent(current) \in set
    THEN ClimbDroppingCurrent(set \ {current}, Parent(current))
    ELSE set

\* the loop of the closure: remove the parents of `current` while they are in acc
RECURSIVE Climb(_, _)
Climb(set, current) ==
    IF HasParent(current) /\ Parent(current) \in set
    THEN Climb(set \ {Parent(current)}, Parent(current))
    ELSE set

\* the closure of the fold
FoldDir(set, path) == IF path \in set THEN Climb(set, path) ELSE set

InitMkdir ==
    /\ dirsIn \in {d \in SUBSET DirUniverse : Cardinality(d) <= MaxDirs}
    /\ acc = dirsIn
    /\ todoDirs = dirsIn
    /\ InitHashIdle /\ InitCryptFileIdle /\ InitWorkIdle

FoldStep(path) ==
    /\ path \in todoDirs
    /\ acc' = FoldDir(acc, path)
    /\ todoDirs' = todoDirs \ {path}
    /\ UNCHANGED <<dirsIn, hashArgs, hashOut, cfLate, cfile, mkWork, pipeVars, nameVars,
                   syncVars>>

NextMkdir == \E path \in DirUniverse : FoldStep(path)

InitMkdirOnly == InitMkdir /\ InitPipeIdle /\ InitNamesIdle /\ InitSyncIdle

SpecMkdir == InitMkdirOnly /\ [][NextMkdir]_vars

\* min_mkdir_set has returned acc
MkdirDone == dirsIn # {} /\ todoDirs = {}

\* C8: for every collection of directory paths, no element of the set
\* min_mkdir_set returns is a proper prefix of another element of it.
C8_Antichain ==
    MkdirDone => \A q1 \in acc, q2 \in acc : ~IsProperPrefix(q1, q2)

\* C9 as stated: every directory of the input is a prefix of, or equal to,
\* exactly one element of the returned set.
C9_CoveredByExactlyOne ==
    MkdirDone => \A d \in dirsIn : Cardinality({q \in acc : IsPathPrefix(d, q)}) = 1

\* C9 amended: every directory of the input is a prefix of, or equal to, at
\* least one element of the returned set, and the returned set holds only
\* directories of the input, so mkdir -p on its elements creates them all.
C9_CoveredByAtLeastOne ==
    MkdirDone =>
        /\ acc \subseteq dirsIn
        /\ \A d \in dirsIn : \E q \in acc : IsPathPrefix(d, q)

C9_Witness ==
    /\ MkdirDone
    /\ \E d \in dirsIn : d \notin acc /\ Cardinality({q \in acc : IsPathPrefix(d, q)}) = 2

-----------------------------------------------------------------------------
(* Source trees.  A tree maps each path under the root to its kind; the names *)
(* are short byte strings, one of them not valid UTF-8.                       *)

RootName == "r"
\* the leading components Path::components gives that are not Component::Normal
CurDir == "."
RootDir == "/"
IsNormal(comp) == comp \notin {CurDir, RootDir}
Names == {"a", "b", "x"}
Kinds == {"dir", "file"}

\* the bytes of a name as the filesystem holds them
NameBytes(n) ==
    CASE n = "r" -> <<114>>
      [] n = "." -> <<46>>
      [] n = "/" -> <<47>>
      [] n = "a" -> <<97>>
      [] n = "b" -> <<98>>
      [] n = "y" -> <<254>>
      [] OTHER -> <<255>>

\* str::from_utf8 succeeds; the names hold ASCII bytes and the bytes 0xFE and
\* 0xFF, which no UTF-8 text contains
IsUtf8(bytes) == \A i \in 1..Len(bytes) : bytes[i] < 128

\* Path::to_str is Some(_)
to_str_ok(p) == \A i \in 1..Len(p) : IsUtf8(NameBytes(p[i]))

\* the bytes of a path, its components joined by '/'
RECURSIVE PathBytes(_)
PathBytes(p) ==
    IF p = <<>> THEN <<>>
    ELSE IF Len(p) = 1 THEN NameBytes(p[1])
    ELSE IF Parent(p) = <<RootDir>> THEN <<47>> \o NameBytes(Basename(p))
    ELSE PathBytes(Parent(p)) \o <<47>> \o NameBytes(Basename(p))

\* the source root handed to CryptSyncer::new
Source == <<RootName>>

\* the trees with one more entry than t, under one of its directories
Grow(t) ==
    {[q \in DOMAIN t \cup {Append(d, n)} |-> IF q \in DOMAIN t THEN t[q] ELSE k] :
        d \in {e \in DOMAIN t : t[e] = "dir"}, n \in Names, k \in Kinds}
    \ {t}

RECURSIVE TreesOf(_)
TreesOf(n) ==
    IF n = 1 THEN {[q \in {Source} |-> k] : k \in Kinds}
    ELSE UNION {Grow(t) : t \in TreesOf(n - 1)}

TreesUpTo(n) == UNION {TreesOf(k) : k \in 1..n}

\* the root of the walk that enumerated t: `self.source`
SourceOf(t) == CHOOSE q \in DOMAIN t : \A e \in DOMAIN t : Len(q) <= Len(e)

DirsOf(t) == {q \in DOMAIN t : t[q] = "dir"}
\* a symbolic link to a regular file, and one whose target does not exist
LinkKinds == {"link_file", "link_none"}
\* Path::is_file follows symbolic links
FilesOf(t) == {q \in DOMAIN t : t[q] \in {"file", "link_file"}}

\* HashMap::insert
Insert(m, k, v) == [q \in DOMAIN m \cup {k} |-> IF q = k THEN v ELSE m[q]]

-----------------------------------------------------------------------------
(* The hasher: PBKDF2-HMAC-SHA512 of ring, stood in by a digest of the        *)
(* iteration count, the salt and the secret.  A key is the record of the      *)
(* pipeline model; KeyBytes gives its bytes back.                             *)

CredentialLen == 64
Pbkdf2NumIter == 131072
SaltLen == 16
DefaultSalt == [i \in 1..SaltLen |-> i - 1]

None == [some |-> FALSE]
Some(v) == [some |-> TRUE, v |-> v]

\* the sum of i * (bytes[i] + 1) over lo..hi
RECURSIVE WeightedSum(_, _, _)
WeightedSum(bytes, lo, hi) ==
    IF lo > hi THEN 0
    ELSE IF lo = hi THEN lo * (bytes[lo] + 1)
    ELSE LET mid == (lo + hi) \div 2
         IN  WeightedSum(bytes, lo, mid) + WeightedSum(bytes, mid + 1, hi)

DigestFrom(h, bytes) == (h * 31 + WeightedSum(bytes, 1, Len(bytes)) + Len(bytes)) % 65521

KeyBytes(k) ==
    [i \in 1..k.len |-> IF i = 1 THEN k.id % 256
                        ELSE IF i = 2 THEN (k.id \div 256) % 256
                        ELSE (k.id + i) % 256]

\* pbkdf2::derive into a buffer of CredentialLen bytes
pbkdf2_derive(num_iter, salt, secret) ==
    [id |-> 1 + DigestFrom(DigestFrom(num_iter % 65521, salt), secret),
     len |-> CredentialLen]

RECURSIVE hash_custom(_, _, _)

\* a salt policy that hands a long salt to the derivation whole
hash_custom_whole_salt(secret, opt_salt, opt_num_iter) ==
    LET num_iter == IF opt_num_iter.some THEN opt_num_iter.v ELSE Pbkdf2NumIter
        salt == IF opt_salt.some /\ Len(opt_salt.v) >= SaltLen
                    THEN opt_salt.v
                ELSE IF opt_salt.some
                    THEN Take(KeyBytes(hash_custom(opt_salt.v, None, Some(1))), SaltLen)
                ELSE DefaultSalt
    IN  pbkdf2_derive(num_iter, salt, secret)

\* the derived bytes; the caller must pass a non-zero iteration count (see
\* hash_custom_call for NonZeroU32::new(num_iter).unwrap())
hash_custom(secret, opt_salt, opt_num_iter) ==
    LET num_iter == IF opt_num_iter.some THEN opt_num_iter.v ELSE Pbkdf2NumIter
        salt == IF opt_salt.some /\ Len(opt_salt.v) >= SaltLen
                    THEN Take(opt_salt.v, SaltLen)
                ELSE IF opt_salt.some
                    THEN Take(KeyBytes(hash_custom(opt_salt.v, None, Some(1))), SaltLen)
                ELSE DefaultSalt
    IN  pbkdf2_derive(num_iter, salt, secret)

\* hash
hash(secret) == hash_custom(secret, None, None)

\* NonZeroU32::new(num_iter): None for 0
NonZeroU32_new(num_iter) == IF num_iter = 0 THEN None ELSE Some(num_iter)

\* one call of hash_custom as its caller sees it: the 64 bytes of to_store, or
\* the panic of NonZeroU32::new(num_iter).unwrap(). The salt is computed first,
\* and its inner call passes Some(1), which never panics.
hash_custom_call(secret, opt_salt, opt_num_iter) ==
    LET num_iter == IF opt_num_iter.some THEN opt_num_iter.v ELSE Pbkdf2NumIter
    IN  IF NonZeroU32_new(num_iter).some
            THEN [res |-> "ok", bytes |-> KeyBytes(hash_custom(secret, opt_salt, opt_num_iter))]
            ELSE [res |-> "panic", bytes |-> <<>>]

-----------------------------------------------------------------------------
(* basename_ciphertexts.                                                      *)

\* the key a basename is encrypted with, derived from the insertion count
parent_derived_hash_by_count(path_buf, source, key_hash) ==
    hash_custom(KeyBytes(key_hash),
                Some(<<Cardinality(DOMAIN bcMap)>>), Some(1))

\* the key a basename is encrypted with: derived from the parent path, or the
\* master key for the source itself and for a parent that is not UTF-8
parent_derived_hash(path_buf, source, key_hash) ==
    IF HasParent(path_buf) /\ to_str_ok(Parent(path_buf)) /\ path_buf # source
    THEN hash_custom(KeyBytes(key_hash), Some(PathBytes(Parent(path_buf))), Some(1))
    ELSE key_hash

\* as_string: the pipeline drained into a String
as_string(st) ==
    LET w == write_all_to(st, 0)
    IN  [res |-> IF w.res = "ok" /\ ~IsUtf8(w.target) THEN "err" ELSE w.res,
         text |-> w.target]

\* the closure of the map step: Ok((path_buf, ciphertext)), an Err or a panic
BasenameEntry(path_buf, source, key_hash) ==
    IF ~IsUtf8(NameBytes(Basename(path_buf)))
    THEN [res |-> "err", text |-> <<>>]
    ELSE LET c == compose_encoders(
                      <<SourceStage(NameBytes(Basename(path_buf)), -1)>>,
                      <<"Encryptor", "TextEncoder">>,
                      parent_derived_hash(path_buf, source, key_hash),
                      "BASE16", DefaultBufSize)
         IN  IF c.res # "ok" THEN [res |-> c.res, text |-> <<>>]
             ELSE as_string(c.st)

MasterKeys == {[id |-> 1, len |-> 16], [id |-> 2, len |-> 64]}

InitNames ==
    /\ tree \in TreesUpTo(MaxNamesNodes)
    /\ master \in MasterKeys
    /\ run = 1
    /\ iter = DOMAIN tree
    /\ inflight = {} /\ bcMap = <<>> /\ bcFirst = <<>> /\ npanic = FALSE

\* a worker takes the next path of find(source): walkdir yields a directory
\* before its entries, the entries of a directory in no particular order
TakePath(path_buf) ==
    /\ run \in {1, 2} /\ ~npanic
    /\ path_buf \in iter
    /\ HasParent(path_buf) => Parent(path_buf) \notin iter
    /\ iter' = iter \ {path_buf}
    /\ inflight' = inflight \cup {path_buf}
    /\ UNCHANGED <<tree, master, run, bcMap, bcFirst, npanic,
                   pipeVars, mkdirVars, syncVars>>

\* a worker maps the path it took and the result is collected (or logged)
CollectEntry(path_buf) ==
    /\ path_buf \in inflight
    /\ \E e \in {BasenameEntry(path_buf, Source, master)} :
        /\ bcMap' = IF e.res = "ok" THEN Insert(bcMap, path_buf, e.text) ELSE bcMap
        /\ npanic' = (npanic \/ e.res = "panic")
    /\ inflight' = inflight \ {path_buf}
    /\ UNCHANGED <<tree, master, run, iter, bcFirst, pipeVars, mkdirVars, syncVars>>

\* basename_ciphertexts has returned its map
NamesDone == run \in {1, 2} /\ iter = {} /\ inflight = {} /\ ~npanic

\* the same call is made again over the unchanged tree
SecondRun ==
    /\ run = 1 /\ NamesDone
    /\ run' = 2
    /\ bcFirst' = bcMap
    /\ bcMap' = <<>>
    /\ iter' = DOMAIN tree
    /\ UNCHANGED <<tree, master, inflight, npanic, pipeVars, mkdirVars, syncVars>>

NextNames ==
    \/ \E path_buf \in DOMAIN tree : TakePath(path_buf)
    \/ \E path_buf \in DOMAIN tree : CollectEntry(path_buf)
    \/ SecondRun

InitNamesOnly == InitNames /\ InitPipeIdle /\ InitMkdirIdle /\ InitSyncIdle

SpecNames == InitNamesOnly /\ [][NextNames]_vars

C6_EveryPathAndAncestorMapped ==
    NamesDone =>
        /\ \A q \in DOMAIN tree : q \in DOMAIN bcMap
        /\ \A q \in DOMAIN bcMap : \A n \in 1..Len(q) : SubSeq(q, 1, n) \in DOMAIN bcMap

-----------------------------------------------------------------------------
(* CryptSyncer::sync.  The destination is an empty directory; a path under it *)
(* is the sequence of its components, each the text of a basename ciphertext. *)

\* basename_ciphertexts as one call: the collected map, or a panic of a worker
basename_ciphertexts(t, source, key_hash) ==
    LET entry == [q \in DOMAIN t |-> BasenameEntry(q, source, key_hash)]
    IN  [res |-> IF \E q \in DOMAIN t : entry[q].res = "panic" THEN "panic" ELSE "ok",
         map |-> [q \in {e \in DOMAIN t : entry[e].res = "ok"} |-> entry[q].text]]

\* the fold of path_ciphertexts over the components of one path, from the i-th
RECURSIVE FoldComponents(_, _, _, _)
FoldComponents(bc, source_path_buf, i, pair) ==
    IF i > Len(source_path_buf) THEN pair
    ELSE LET comp == source_path_buf[i]
             acc_src == Append(pair.src, comp)
         IN  FoldComponents(bc, source_path_buf, i + 1,
                IF ~IsNormal(comp) THEN pair
                ELSE [src |-> acc_src,
                      enc |-> IF acc_src \in DOMAIN bc
                              THEN Append(pair.enc, bc[acc_src]) ELSE pair.enc])

\* the pairs (acc_src, acc_enc) of the fold, collected into a HashMap: two
\* paths with the same acc_src fold to the same acc_enc
path_ciphertexts(bc) ==
    LET folded == [q \in DOMAIN bc |->
                      FoldComponents(bc, q, 1, [src |-> <<>>, enc |-> <<>>])]
    IN  [k \in {folded[q].src : q \in DOMAIN bc} |->
            folded[CHOOSE q \in DOMAIN bc : folded[q].src = k].enc]

\* min_mkdir_set as one call
RECURSIVE FoldAll(_, _)
FoldAll(set, todo) ==
    IF todo = {} THEN set
    ELSE LET path == CHOOSE q \in todo : TRUE
         IN  FoldAll(FoldDir(set, path), todo \ {path})

min_mkdir_set(dirs) == FoldAll(dirs, dirs)

\* create_dir that does not make the missing parents
create_dir(dirs, d) == dirs \cup {d}

\* create_dir_all: the directory and its missing parents
create_dir_all(dirs, d) == dirs \cup {SubSeq(d, 1, n) : n \in 1..Len(d)}

\* BASE64 with '/' replaced by '-'
\* an encoding that leaves the base64 alphabet as it is
PathUnsafe(text) == text

PathSafe(text) == [i \in 1..Len(text) |-> IF text[i] = 47 THEN 45 ELSE text[i]]

\* the hash is shorter than one buffer of the TextEncoder, which encodes it
\* in one call of the encode function
hash_base64_pathsafe(bytes) == PathSafe(Encode("BASE64", KeyBytes(hash(bytes))))

\* a scratch name made from the basename alone
arena_basename_of_name(source) == hash_base64_pathsafe(NameBytes(Basename(source)))

\* the name of the scratch file of a source path
arena_basename(source) == hash_base64_pathsafe(PathBytes(source))

\* the content of a source file
FileBytes(source) == NameBytes(Basename(source)) \o NameBytes(Basename(source))

\* what the environment can do to the worker of one file
Faults == {"none", "open", "read", "create", "write"}

Remove(m, k) == [q \in DOMAIN m \ {k} |-> m[q]]

\* the for_each of the mkdir step has returned (a panic of a worker is
\* propagated once the workers that run have finished)
mkdir_step_done_early(todo, panicked) == TRUE

mkdir_step_done(todo, panicked) == todo = {} \/ panicked

InitSync ==
    /\ tree \in TreesUpTo(MaxNodes)
    /\ master \in MasterKeys
    /\ run = 0 /\ iter = {} /\ inflight = {} /\ bcMap = <<>> /\ bcFirst = <<>>
    /\ npanic = FALSE
    /\ sphase = "start" /\ pathMap = <<>> /\ mkTodo = {} /\ destDirs = {}
    /\ destFiles = <<>> /\ arena = <<>> /\ fstate = <<>> /\ ioFault = <<>>
    /\ spanic = FALSE /\ outDir = "dir" /\ arenaDir = "live"
    /\ destFirst = <<>>

\* a sync that does not look at out_dir before it starts
out_dir_asserts_skipped(kind) == TRUE

\* assert!(out_dir.exists()); assert!(out_dir.is_dir());
out_dir_asserts(kind) == kind = "dir"

\* lines 40-47: the assertions on out_dir, the two maps and the mkdir set
\* line 57: the keys of the path map that Path::is_file accepts.  A key is
\* resolved from the working directory, so the key r rebuilt from ./r names
\* the same entry, while the key rebuilt from /r names nothing there
SourceFiles(t, src_to_target) ==
    {q \in DOMAIN src_to_target : q \in FilesOf(t) \/ <<CurDir>> \o q \in FilesOf(t)}

SyncStart ==
    /\ sphase = "start"
    /\ IF ~out_dir_asserts(outDir)
       THEN /\ sphase' = "panic" /\ spanic' = TRUE
            /\ UNCHANGED <<bcMap, pathMap, mkTodo, fstate, ioFault>>
       ELSE IF DOMAIN tree = {}
       THEN \* the source does not exist: debug_assert!(root.exists()) in find,
            \* or a walk whose only item is an Err, printed and dropped
            \E debug \in BOOLEAN :
                IF debug
                THEN /\ sphase' = "panic" /\ spanic' = TRUE
                     /\ UNCHANGED <<bcMap, pathMap, mkTodo, fstate, ioFault>>
                ELSE /\ sphase' = "mkdir"
                     /\ bcMap' = <<>> /\ pathMap' = <<>> /\ mkTodo' = {}
                     /\ fstate' = <<>> /\ ioFault' = <<>>
                     /\ UNCHANGED spanic
       ELSE
       \E bc \in {basename_ciphertexts(tree, SourceOf(tree), master)} :
        IF bc.res = "panic"
        THEN /\ sphase' = "panic" /\ spanic' = TRUE
             /\ UNCHANGED <<bcMap, pathMap, mkTodo, fstate, ioFault>>
        ELSE \E src_to_target \in {path_ciphertexts(bc.map)} :
             /\ sphase' = "mkdir"
             /\ bcMap' = bc.map
             /\ pathMap' = src_to_target
             /\ mkTodo' = min_mkdir_set(DirsOf(tree))
             /\ fstate' = [q \in SourceFiles(tree, src_to_target) |-> "todo"]
             /\ ioFault' = [q \in SourceFiles(tree, src_to_target) |-> "none"]
             /\ UNCHANGED spanic
    /\ UNCHANGED <<tree, master, run, iter, inflight, bcFirst, npanic, destDirs,
                   destFiles, arena, pipeVars, mkdirVars, outDir, arenaDir, destFirst>>

\* lines 48-54: one element of the mkdir set goes through the chain
Mkdir(dir_path, ok) ==
    /\ sphase = "mkdir"
    /\ dir_path \in mkTodo
    /\ mkTodo' = mkTodo \ {dir_path}
    /\ IF dir_path \notin DOMAIN pathMap \/ ~ok
       THEN spanic' = TRUE /\ UNCHANGED destDirs
       ELSE destDirs' = create_dir_all(destDirs, pathMap[dir_path]) /\ UNCHANGED spanic
    /\ UNCHANGED <<sphase, pathMap, destFiles, arena, fstate, ioFault, nameVars,
                   pipeVars, mkdirVars, outDir, arenaDir, destFirst>>

\* the mkdir chain has returned or unwound
EndMkdir ==
    /\ sphase = "mkdir"
    /\ mkdir_step_done(mkTodo, spanic)
    /\ sphase' = IF spanic THEN "panic" ELSE "files"
    /\ UNCHANGED <<pathMap, mkTodo, destDirs, destFiles, arena, fstate, ioFault,
                   spanic, nameVars, pipeVars, mkdirVars, outDir, arenaDir, destFirst>>

\* the key of the Encryptor stage of a file's content pipeline: `key_hash`,
\* the argument of sync, for every file
content_key(source) == master

\* lines 58-78: the worker of one file up to the end of the map closure,
\* under each fault the environment can inject
EncodeFile(source) ==
    /\ sphase = "files"
    /\ source \in DOMAIN fstate /\ fstate[source] = "todo"
    /\ IF ~to_str_ok(source)
       THEN /\ fstate' = [fstate EXCEPT ![source] = "skipped"]
            /\ UNCHANGED <<arena, ioFault, spanic>>
       ELSE \E temp \in {arena_basename(source)}, fault \in Faults :
            \E c \in {IF fault = "open" THEN [res |-> "panic"]
                      ELSE compose_encoders(
                               <<SourceStage(FileBytes(source),
                                             IF fault = "read" THEN 1 ELSE -1)>>,
                               SyncShape, content_key(source), "BASE16",
                               DefaultBufSize)} :
            IF c.res # "ok" \/ fault = "create"
            THEN /\ fstate' = [fstate EXCEPT ![source] = "panic"]
                 /\ ioFault' = [ioFault EXCEPT ![source] = fault]
                 /\ spanic' = TRUE
                 /\ UNCHANGED arena
            ELSE \E w \in {write_all_to(c.st, 0)} :
                 /\ arena' = Insert(arena, temp,
                                    IF fault = "write" THEN <<>> ELSE w.target)
                 /\ ioFault' = [ioFault EXCEPT ![source] =
                                   IF fault = "none" /\ w.res # "ok" THEN "read" ELSE fault]
                 /\ fstate' = [fstate EXCEPT ![source] = "encoded"]
                 /\ UNCHANGED spanic
    /\ UNCHANGED <<sphase, pathMap, mkTodo, destDirs, destFiles, nameVars, pipeVars,
                   mkdirVars, outDir, arenaDir, destFirst>>

\* lines 79-83: the for_each closure of one file; `ok` is whether the
\* filesystem lets the rename through, `debug` whether debug_assert! is compiled in
RenameFile(source) ==
    /\ sphase = "files"
    /\ source \in DOMAIN fstate /\ fstate[source] = "encoded"
    /\ \E temp \in {arena_basename(source)}, ok \in BOOLEAN, debug \in BOOLEAN :
       LET target == pathMap[source]
           \* out_dir.join of the empty path is out_dir itself, a directory
           is_dir == target \in destDirs \/ target = <<>>
           exists == target \in DOMAIN destFiles \/ is_dir
       IN  IF \/ ~ok
              \/ temp \notin DOMAIN arena
              \/ exists /\ (debug \/ is_dir)
              \/ Len(target) > 1 /\ Parent(target) \notin destDirs
           THEN /\ fstate' = [fstate EXCEPT ![source] = "panic"]
                /\ ioFault' = IF ~ok /\ ioFault[source] = "none"
                              THEN [ioFault EXCEPT ![source] = "rename"] ELSE ioFault
                /\ spanic' = TRUE
                /\ UNCHANGED <<destFiles, arena>>
           ELSE /\ destFiles' = Insert(destFiles, target, arena[temp])
                /\ arena' = Remove(arena, temp)
                /\ fstate' = [fstate EXCEPT ![source] = "renamed"]
                /\ UNCHANGED <<spanic, ioFault>>
    /\ UNCHANGED <<sphase, pathMap, mkTodo, destDirs, nameVars, pipeVars,
                   mkdirVars, outDir, arenaDir, destFirst>>

\* the file chain has returned (line 86 is reached) or unwound
EndFiles ==
    /\ sphase = "files"
    /\ spanic \/ \A q \in DOMAIN fstate : fstate[q] \in {"renamed", "skipped"}
    /\ \A q \in DOMAIN fstate : fstate[q] # "encoded"
    /\ sphase' = IF spanic THEN "panic" ELSE "todo"
    /\ UNCHANGED <<pathMap, mkTodo, destDirs, destFiles, arena, fstate, ioFault,
                   spanic, nameVars, pipeVars, mkdirVars, outDir, arenaDir, destFirst>>

NextSync ==
    \/ SyncStart
    \/ \E d \in DOMAIN tree, ok \in BOOLEAN : Mkdir(d, ok)
    \/ EndMkdir
    \/ \E f \in DOMAIN fstate : EncodeFile(f)
    \/ \E f \in DOMAIN fstate : RenameFile(f)
    \/ EndFiles

InitSyncOnly == InitSync /\ InitPipeIdle /\ InitMkdirIdle

SpecSync == InitSyncOnly /\ [][NextSync]_vars

\* C3: a destination file D/C(F) exists only after the pipeline for F has
\* been drained to end-of-stream without error into its scratch file; after a
\* failure of the open, the build, a read or a scratch write there is no
\* destination artifact for F.
C3_NoArtifactAfterFailure ==
    \A f \in DOMAIN fstate :
        (f \in DOMAIN pathMap /\ pathMap[f] \in DOMAIN destFiles) => ioFault[f] = "none"

\* C4: the whole mkdir step has completed before the worker of any file
\* renames its scratch file, and the directory the file is renamed into
\* exists by then, under every interleaving of the workers.
C4_MkdirBeforeRename ==
    \A f \in DOMAIN fstate :
        fstate[f] \in {"encoded", "renamed"} =>
            /\ mkTodo = {}
            /\ Len(pathMap[f]) > 1 => Parent(pathMap[f]) \in destDirs

C4_Witness ==
    \E f \in DOMAIN fstate :
        /\ fstate[f] = "renamed"
        /\ Len(pathMap[f]) > 2
        /\ \E g \in DOMAIN fstate : fstate[g] = "todo"

\* both steps of sync have run to line 86 and nothing failed or was skipped
SyncedWithoutErrors ==
    /\ sphase = "todo" /\ ~spanic
    /\ DOMAIN pathMap = DOMAIN tree
    /\ \A f \in DOMAIN fstate : fstate[f] = "renamed" /\ ioFault[f] = "none"

-----------------------------------------------------------------------------
(* SpecPull: pull called over and over on one source, a byte slice or a file  *)
(* whose read fails after some bytes.  lastLen is the requested size,         *)
(* lastRet the length of Some(buffer), 0 for None and -1 for an Err.          *)

InitPull ==
    \E b \in Inputs, fail \in -1..MaxLen :
        /\ pipe = <<SourceStage(b, fail)>>
        /\ input = b
        /\ key = NoKey /\ shape = <<>>
        /\ phase = "pull"
        /\ out = <<>> /\ lastLen = -1 /\ lastRet = -1
        /\ zeroSeen = FALSE /\ eosSeen = FALSE
        /\ lateBytes = NoLate
        /\ pstatus = "run"

InitPullOnly == InitPull /\ InitMkdirIdle /\ InitNamesIdle /\ InitSyncIdle

\* one call pull(source, size)
Pull(size) ==
    /\ phase = "pull" /\ pstatus = "run"
    /\ \E r \in {pull(pipe, 1, size)} :
        /\ pipe' = r.st
        /\ pstatus' = IF r.res = "ok" THEN "run" ELSE r.res
        /\ out' = out \o r.buf
        /\ lastLen' = size
        /\ lastRet' = IF r.res = "ok" THEN Len(r.buf) ELSE -1
    /\ UNCHANGED <<input, key, shape, phase, zeroSeen, eosSeen, lateBytes,
                   mkdirVars, nameVars, syncVars>>

NextPull == \E size \in 0..MaxTarget : Pull(size)

SpecPull == InitPullOnly /\ [][NextPull]_vars

\* the first read attempt of a call made now yields end-of-stream
FirstReadIsEos ==
    LET r == SourceRead(pipe, 1, 1) IN r.res = "ok" /\ r.out = <<>>

\* the call of this step returned Some(buffer) with the next bytes of the
\* source in order, between 1 and lastLen' of them, fewer than asked only
\* when the source was exhausted during the call
PulledNextBytes ==
    /\ lastRet' \in 1..lastLen'
    /\ out' = out \o Take(pipe[1].data, lastRet')
    /\ pipe'[1].data = Drop(pipe[1].data, lastRet')
    /\ lastRet' < lastLen' => pipe'[1].data = <<>>

\* C11 as stated: for every source and every size, pull returns None only if
\* its first read attempt yields end-of-stream, and otherwise returns between
\* 1 and N next bytes of the source.
C11_PullAsStated ==
    [][phase = "pull" =>
        /\ lastRet' = 0 => FirstReadIsEos
        /\ ~FirstReadIsEos => PulledNextBytes]_vars

\* C11 amended: for every size of at least 1, a call during which no read
\* fails returns None exactly when its first read attempt yields
\* end-of-stream and otherwise the next 1..N bytes; a call of size 0 returns
\* None and reads nothing; a call during which a read fails returns the error
\* and hands over none of the bytes it read.
C11_PullWithoutFailure ==
    [][phase = "pull" =>
        /\ (lastLen' >= 1 /\ pstatus' = "run") =>
                /\ lastRet' = 0 <=> FirstReadIsEos
                /\ lastRet' # 0 => PulledNextBytes
        /\ lastLen' = 0 => (lastRet' = 0 /\ pipe' = pipe /\ out' = out)
        /\ pstatus' # "run" => (lastRet' = -1 /\ out' = out)]_vars

C11_Witness ==
    /\ phase = "pull" /\ pstatus = "run"
    /\ lastRet \in 1..(lastLen - 1)
    /\ Len(input) = MaxLen /\ out = input


\* ---------------------------------------------------------------------------
\* Text stages over inputs longer than one refill of the source buffer
\* ---------------------------------------------------------------------------

MaxTextLen == 40
\* the longest input of a pipeline that ends in a TextDecoder
MaxDecodeLen == 12

\* a buffer size for TextEncoder::new_custom that keeps the order of the three
\* sizes new_custom derives from the default: src_buf_pull_size is a multiple
\* of block_size and is at most src_pull_size, for every encoding
ScaledBufSize == 24

TextEncoderBufSizes == {ScaledBufSize, DefaultBufSize}

TextShapes == {<<"TextEncoder">>, <<"TextDecoder">>, <<"TextEncoder", "TextDecoder">>}

TextByte(i) == (255 + 37 * i) % 256

TextInputs == {[i \in 1..n |-> TextByte(i)] : n \in 0..MaxTextLen}

InitText ==
    \E sh \in TextShapes, enc \in Encodings, bs \in TextEncoderBufSizes, b \in TextInputs :
        LET text == IF sh = <<"TextDecoder">> THEN Encode(enc, b) ELSE b
            c == compose_encoders(<<SourceStage(text, -1)>>, sh, DefaultKey, enc, bs)
        IN  /\ HasKind(sh, {"TextEncoder"}) \/ bs = DefaultBufSize
            /\ sh = <<"TextEncoder">> \/ Len(b) <= MaxDecodeLen
            /\ shape = sh
            /\ key = DefaultKey
            /\ input = text
            /\ pipe = c.st
            /\ pstatus = IF c.res = "ok" THEN "run" ELSE c.res
            /\ phase = "text"
            /\ out = <<>> /\ lastLen = -1 /\ lastRet = -1
            /\ zeroSeen = FALSE /\ eosSeen = FALSE
            /\ lateBytes = NoLate

InitTextOnly == InitText /\ InitMkdirIdle /\ InitNamesIdle /\ InitSyncIdle

NextText ==
    \/ \E L \in (1..MaxTarget) \cup {DefaultBufSize} : CallerRead(L)
    \/ Drain(0)

SpecText == InitTextOnly /\ [][NextText]_vars

\* an input longer than two refills of the encoder's source buffer
Refilled == phase = "text" /\ shape = <<"TextEncoder">>
            /\ Len(input) > 2 * pipe[2].src_pull_size

\* C12: for each encoding and every input, the bytes a TextEncoder has
\* returned so far are a prefix of the one-shot encoding of the input, and
\* once a read with a non-empty target has returned 0 they are the whole
\* one-shot encoding (so padding appears only at its end)
C12_StreamEqualsOneShot ==
    (phase = "text" /\ shape = <<"TextEncoder">>) =>
        /\ pstatus = "run"
        /\ IsPrefix(out, Encode(pipe[2].enc, input))
        /\ eosSeen => out = Encode(pipe[2].enc, input)

\* an input that took more than two refills of the source buffer, in an
\* encoding that pads, read to the end
C12_Witness ==
    /\ Refilled /\ eosSeen
    /\ pipe[2].enc = "BASE64"
    /\ Len(out) > 0 /\ out[Len(out)] = PadChar


C14_FileErrorDoesNotAbort ==
    (sphase \in {"todo", "panic"} /\ \E g \in DOMAIN fstate : fstate[g] = "panic") =>
        /\ sphase = "todo"
        /\ \A f \in DOMAIN fstate :
               (fstate[f] # "panic" /\ ioFault[f] = "none" /\ to_str_ok(f)) =>
                   /\ fstate[f] = "renamed"
                   /\ pathMap[f] \in DOMAIN destFiles


\* the text encoding of the basename of path_buf encrypted under key k
EncryptedBasename(path_buf, k) ==
    LET c == compose_encoders(<<SourceStage(NameBytes(Basename(path_buf)), -1)>>,
                              <<"Encryptor", "TextEncoder">>, k, "BASE16",
                              DefaultBufSize)
    IN  IF c.res # "ok" THEN [res |-> c.res, text |-> <<>>] ELSE as_string(c.st)

\* the key the rule "master key for the root and for a path with no parent,
\* derive(K, parent path, 1) for every other path" gives
RuleKey(path_buf) ==
    IF path_buf = Source \/ ~HasParent(path_buf) THEN master
    ELSE hash_custom(KeyBytes(master), Some(PathBytes(Parent(path_buf))), Some(1))

\* C15: the basename of every path P of the map is encrypted under the master
\* key exactly when P is the root or has no parent, and under
\* derive(K, textual parent path of P, 1) otherwise; the entry of P is the
\* text encoding of that ciphertext.
C15_KeyByParent ==
    \A q \in DOMAIN bcMap :
        \E e \in {EncryptedBasename(q, RuleKey(q))} : e.res = "ok" /\ bcMap[q] = e.text


\* C16: during one sync no two distinct source files have their contents
\* encrypted under the same key, so the constant initialization vector is
\* never used twice with one key.
C16_DistinctContentKeys ==
    \A f \in DOMAIN fstate : \A g \in DOMAIN fstate :
        (f # g /\ fstate[f] \in {"encoded", "renamed"}
               /\ fstate[g] \in {"encoded", "renamed"}) =>
            content_key(f) # content_key(g)


\* the bytes of ".csync"
CsyncSuffix == <<46, 99, 115, 121, 110, 99>>

EndsWith(text, suffix) ==
    Len(text) >= Len(suffix) /\ Drop(text, Len(text) - Len(suffix)) = suffix

\* C17: the destination name of an enumerated path ends with ".csync" if and
\* only if the path is a file; directory names carry no suffix.
C17_SuffixIffFile ==
    \A q \in DOMAIN bcMap : EndsWith(bcMap[q], CsyncSuffix) <=> tree[q] = "file"


\* ---------------------------------------------------------------------------
\* sync over a source given as a relative path, with a leading "./", or as an
\* absolute path: the two maps and the mkdir chain
\* ---------------------------------------------------------------------------

\* what stands before the root's name in the path handed to CryptSyncer::new
RootForms == {<<>>, <<CurDir>>, <<RootDir>>}

\* the tree t as the walk of form \o Source enumerates it
Reroot(t, form) == [q \in {form \o e : e \in DOMAIN t} |-> t[Drop(q, Len(form))]]

InitPaths ==
    /\ \E t \in TreesUpTo(MaxNamesNodes), form \in RootForms : tree = Reroot(t, form)
    /\ master \in MasterKeys
    /\ run = 0 /\ iter = {} /\ inflight = {} /\ bcMap = <<>> /\ bcFirst = <<>>
    /\ npanic = FALSE
    /\ sphase = "start" /\ pathMap = <<>> /\ mkTodo = {} /\ destDirs = {}
    /\ destFiles = <<>> /\ arena = <<>> /\ fstate = <<>> /\ ioFault = <<>>
    /\ spanic = FALSE /\ outDir = "dir" /\ arenaDir = "live"
    /\ destFirst = <<>>

InitPathsOnly == InitPaths /\ InitPipeIdle /\ InitMkdirIdle

NextPaths ==
    \/ SyncStart
    \/ \E d \in DOMAIN tree, ok \in BOOLEAN : Mkdir(d, ok)
    \/ EndMkdir

SpecPaths == InitPathsOnly /\ [][NextPaths]_vars

\* C18: for every source path P of the basename map, whatever the form of the
\* source (relative, with a leading "./", absolute), the path map has an entry
\* keyed by P, and its value has one segment per prefix of P from the root
\* down to P, the j-th being the basename ciphertext of the j-th prefix.
C18_EntryPerSourcePath ==
    \A q \in DOMAIN bcMap :
        /\ q \in DOMAIN pathMap
        /\ Len(pathMap[q]) = Len(q) - Len(SourceOf(tree)) + 1
        /\ \A j \in 1..Len(pathMap[q]) :
               LET prefix == SubSeq(q, 1, Len(SourceOf(tree)) - 1 + j)
               IN  prefix \in DOMAIN bcMap /\ pathMap[q][j] = bcMap[prefix]


\* a name that is one path component: not empty and without the separator '/'
IsComponent(text) == Len(text) > 0 /\ \A i \in 1..Len(text) : text[i] # 47

C20_NonUtf8SkippedOnly ==
    /\ \A q \in DOMAIN bcMap : to_str_ok(q)
    /\ sphase = "mkdir" => \A d \in mkTodo : d \in DOMAIN pathMap
    /\ \A f \in DOMAIN fstate : (fstate[f] = "panic" /\ ioFault[f] = "none") => to_str_ok(f)
    /\ \A q \in DOMAIN pathMap :
           to_str_ok(q) =>
               /\ Len(pathMap[q]) = Len(q)
               /\ pathMap[q][Len(q)] = EncryptedBasename(q, RuleKey(q)).text


\* ---------------------------------------------------------------------------
\* sync over a source that holds a symbolic link
\* ---------------------------------------------------------------------------

\* the tree t with the entry q a symbolic link of kind k; the walk does not
\* follow links, so a link is always a leaf
Relink(t, q, k) == [e \in DOMAIN t |-> IF e = q THEN k ELSE t[e]]

InitLinks ==
    /\ \E t \in TreesUpTo(MaxNamesNodes) :
       \E q \in {e \in DOMAIN t : t[e] = "file" /\ e # Source}, k \in LinkKinds :
           tree = Relink(t, q, k)
    /\ master \in MasterKeys
    /\ run = 0 /\ iter = {} /\ inflight = {} /\ bcMap = <<>> /\ bcFirst = <<>>
    /\ npanic = FALSE
    /\ sphase = "start" /\ pathMap = <<>> /\ mkTodo = {} /\ destDirs = {}
    /\ destFiles = <<>> /\ arena = <<>> /\ fstate = <<>> /\ ioFault = <<>>
    /\ spanic = FALSE /\ outDir = "dir" /\ arenaDir = "live"
    /\ destFirst = <<>>

InitLinksOnly == InitLinks /\ InitPipeIdle /\ InitMkdirIdle

SpecLinks == InitLinksOnly /\ [][NextSync]_vars

\* C21: a source entry that is a symbolic link is rejected: it has no entry
\* in the basename map or the path map, and no file worker takes it, so
\* nothing is written to the destination for it.
C21_SymlinkRejected ==
    \A q \in DOMAIN tree :
        tree[q] \in LinkKinds =>
            /\ q \notin DOMAIN bcMap
            /\ q \notin DOMAIN pathMap
            /\ q \notin DOMAIN fstate


\* ---------------------------------------------------------------------------
\* compose_encoders! under failing constructors
\* ---------------------------------------------------------------------------

MaxStages == 4

InitCompose ==
    \E sh \in Shapes, k \in Keys, fail_at \in 0..MaxStages, b \in Inputs :
        LET c == compose_encoders_env(<<SourceStage(b, -1)>>, sh, k, "BASE16",
                                      DefaultBufSize, fail_at)
        IN  /\ fail_at <= Len(sh)
            /\ shape = sh
            /\ key = k
            /\ input = b
            /\ pipe = c.st
            /\ pstatus = IF c.res = "ok" THEN "run" ELSE c.res
            /\ phase = "compose"
            /\ out = <<>> /\ lastLen = -1 /\ lastRet = -1
            /\ zeroSeen = FALSE /\ eosSeen = FALSE
            /\ lateBytes = NoLate

InitComposeOnly == InitCompose /\ InitMkdirIdle /\ InitNamesIdle /\ InitSyncIdle

NextCompose ==
    \/ \E L \in 1..MaxTarget : CallerRead(L)
    \/ Drain(0)

SpecCompose == InitComposeOnly /\ [][NextCompose]_vars

\* the stages compose_encoders! has built on top of the root
Built == Len(pipe) - 1

C23_ShortKeyIsErrorValue ==
    (phase = "compose" /\ Built < Len(shape) /\ key.len < KeyLen
        /\ shape[Built + 1] \in {"Encryptor", "Decryptor"}) => pstatus = "err"


\* ---------------------------------------------------------------------------
\* sync called with a destination that is no directory, or on a source that
\* does not exist (an empty tree: the walk enumerates nothing)
\* ---------------------------------------------------------------------------

OutDirKinds == {"dir", "file", "missing"}

InitPre ==
    /\ tree \in TreesUpTo(MaxNamesNodes) \cup {<<>>}
    /\ outDir \in OutDirKinds
    /\ master \in MasterKeys
    /\ run = 0 /\ iter = {} /\ inflight = {} /\ bcMap = <<>> /\ bcFirst = <<>>
    /\ npanic = FALSE
    /\ sphase = "start" /\ pathMap = <<>> /\ mkTodo = {} /\ destDirs = {}
    /\ destFiles = <<>> /\ arena = <<>> /\ fstate = <<>> /\ ioFault = <<>>
    /\ spanic = FALSE /\ arenaDir = "live" /\ destFirst = <<>>

InitPreOnly == InitPre /\ InitPipeIdle /\ InitMkdirIdle

SpecPre == InitPreOnly /\ [][NextSync]_vars

NoEffect == destDirs = {} /\ destFiles = <<>> /\ arena = <<>>

remove_dir_only(files) == files

\* TempDir's drop: the directory goes with everything in it
remove_dir_all(files) == <<>>

InitLife ==
    /\ tree \in TreesUpTo(MaxNamesNodes)
    /\ master \in MasterKeys
    /\ run = 0 /\ iter = {} /\ inflight = {} /\ bcMap = <<>> /\ bcFirst = <<>>
    /\ npanic = FALSE
    /\ sphase = "idle" /\ pathMap = <<>> /\ mkTodo = {} /\ destDirs = {}
    /\ destFiles = <<>> /\ arena = <<>> /\ fstate = <<>> /\ ioFault = <<>>
    /\ spanic = FALSE /\ outDir = "dir" /\ arenaDir = "none"
    /\ destFirst = <<>>

InitLifeOnly == InitLife /\ InitPipeIdle /\ InitMkdirIdle

\* CryptSyncer::new: mktemp_dir makes the scratch directory
NewSyncer ==
    /\ sphase = "idle" /\ arenaDir = "none"
    /\ arenaDir' = "live"
    /\ UNCHANGED <<sphase, pathMap, mkTodo, destDirs, destFiles, arena, fstate,
                   ioFault, spanic, outDir, destFirst, nameVars, pipeVars, mkdirVars>>

\* the caller calls sync on the syncer it holds
CallSync ==
    /\ sphase = "idle" /\ arenaDir = "live"
    /\ sphase' = "start"
    /\ UNCHANGED <<pathMap, mkTodo, destDirs, destFiles, arena, fstate, ioFault,
                   spanic, outDir, arenaDir, destFirst, nameVars, pipeVars, mkdirVars>>

\* the CryptSyncer goes out of scope, before any sync or after one has
\* returned or unwound: its TempDir field is dropped
DropSyncer ==
    /\ sphase \in {"idle", "todo", "panic"} /\ arenaDir = "live"
    /\ arenaDir' = "removed"
    /\ arena' = remove_dir_all(arena)
    /\ UNCHANGED <<sphase, pathMap, mkTodo, destDirs, destFiles, fstate, ioFault,
                   spanic, outDir, destFirst, nameVars, pipeVars, mkdirVars>>

NextLife ==
    \/ NewSyncer
    \/ CallSync
    \/ NextSync
    \/ DropSyncer

SpecLife == InitLifeOnly /\ [][NextLife]_vars

\* the owner of a CryptSyncer lets go of it at the end of its scope, which a
\* return and an unwinding panic both reach
SpecLifeFair == SpecLife /\ WF_vars(DropSyncer)

SyncEnded == sphase \in {"todo", "panic"}

ScratchHolders ==
    {f \in DOMAIN fstate :
        \/ fstate[f] = "encoded"
        \/ fstate[f] = "panic" /\ ioFault[f] \in {"none", "rename", "read", "write"}}

\* C26: under every interleaving of the file workers, every worker that has
\* written its scratch file and not yet renamed it finds it in the scratch
\* directory, and the scratch directory holds as many files as there are
\* such workers: no two of them use the same scratch name.
C26_DistinctScratchNames ==
    /\ \A f \in ScratchHolders : arena_basename(f) \in DOMAIN arena
    /\ Cardinality(DOMAIN arena) = Cardinality(ScratchHolders)

\* two files with the same basename in different directories both wait for
\* their rename
C26_Witness ==
    \E f \in DOMAIN fstate : \E g \in DOMAIN fstate :
        /\ f # g /\ Basename(f) = Basename(g)
        /\ fstate[f] = "encoded" /\ fstate[g] = "encoded"
        /\ Cardinality(DOMAIN arena) = 2


\* ---------------------------------------------------------------------------
\* a second sync of the unchanged source into the destination of the first
\* ---------------------------------------------------------------------------

\* the names under out_dir
DestNames == [dirs |-> destDirs, files |-> DOMAIN destFiles]

InitResync ==
    /\ tree \in TreesUpTo(MaxNamesNodes)
    /\ master \in MasterKeys
    /\ run = 1 /\ iter = {} /\ inflight = {} /\ bcMap = <<>> /\ bcFirst = <<>>
    /\ npanic = FALSE
    /\ sphase = "start" /\ pathMap = <<>> /\ mkTodo = {} /\ destDirs = {}
    /\ destFiles = <<>> /\ arena = <<>> /\ fstate = <<>> /\ ioFault = <<>>
    /\ spanic = FALSE /\ outDir = "dir" /\ arenaDir = "live"
    /\ destFirst = <<>>

InitResyncOnly == InitResync /\ InitPipeIdle /\ InitMkdirIdle

\* the first sync went through both steps with no fault of the filesystem;
\* sync is called again with the same key_hash on the same source and out_dir
SyncAgain ==
    /\ run = 1 /\ sphase = "todo"
    /\ \A f \in DOMAIN ioFault : ioFault[f] = "none"
    /\ run' = 2
    /\ sphase' = "start"
    /\ destFirst' = DestNames
    /\ bcMap' = <<>> /\ pathMap' = <<>> /\ mkTodo' = {}
    /\ fstate' = <<>> /\ ioFault' = <<>>
    /\ UNCHANGED <<tree, master, iter, inflight, bcFirst, npanic, destDirs, destFiles,
                   arena, spanic, outDir, arenaDir, pipeVars, mkdirVars>>

\* the filesystem lets every create_dir_all through
NextResync ==
    \/ SyncStart
    \/ \E d \in DOMAIN tree : Mkdir(d, TRUE)
    \/ EndMkdir
    \/ \E f \in DOMAIN tree : EncodeFile(f)
    \/ \E f \in DOMAIN tree : RenameFile(f)
    \/ EndFiles
    \/ SyncAgain

SpecResync == InitResyncOnly /\ [][NextResync]_vars

\* C27: a second sync with the same key on the unchanged source, into the
\* destination the first one populated, meets no fault of the filesystem,
\* goes through both steps without a panic and leaves the destination with
\* exactly the names it had after the first.
C27_SecondRunSameNames ==
    (run = 2 /\ sphase \in {"todo", "panic"}
        /\ \A f \in DOMAIN ioFault : ioFault[f] = "none") =>
        /\ sphase = "todo"
        /\ DestNames = destFirst

------------------------------------------------------------------------------
(* hash_custom called on its own, several times with the same arguments.      *)

MaxSaltLen == 18
MaxCalls == 3
TestNumIter == 32

SaltByte(i) == (3 + 7 * i) % 256

\* the salts tried: every prefix of one pattern, and each with its last byte
\* changed, so that salts of 17 bytes and more agree on their first 16 bytes
SaltsTried ==
    LET base(n) == [i \in 1..n |-> SaltByte(i)]
    IN  {base(n) : n \in 0..MaxSaltLen}
            \cup {[base(n) EXCEPT ![n] = (@ + 1) % 256] : n \in 1..MaxSaltLen}

SaltOptions == {None} \cup {Some(x) : x \in SaltsTried}

IterOptions == {None, Some(0), Some(1), Some(TestNumIter)}

InitHash ==
    /\ hashArgs \in [secret : Inputs, salt : SaltOptions, iter : IterOptions]
    /\ hashOut = <<>>

InitHashOnly ==
    /\ InitHash /\ dirsIn = {} /\ todoDirs = {} /\ acc = {} /\ InitCryptFileIdle
    /\ InitWorkIdle
    /\ InitPipeIdle /\ InitNamesIdle /\ InitSyncIdle

HashCall ==
    /\ Len(hashOut) < MaxCalls
    /\ hashOut' = Append(hashOut,
                         hash_custom_call(hashArgs.secret, hashArgs.salt, hashArgs.iter))
    /\ UNCHANGED <<hashArgs, dirsIn, todoDirs, acc, cfLate, cfile, mkWork, pipeVars,
                   nameVars, syncVars>>

NextHash == HashCall

SpecHash == InitHashOnly /\ [][NextHash]_vars

\* the iteration count a call runs with
NumIterOf(opt_num_iter) == IF opt_num_iter.some THEN opt_num_iter.v ELSE Pbkdf2NumIter

\* the salt the salt policy of C28 prescribes, from the derivation alone
SaltByPolicy(opt_salt) ==
    IF ~opt_salt.some THEN DefaultSalt
    ELSE IF Len(opt_salt.v) >= SaltLen THEN Take(opt_salt.v, SaltLen)
    ELSE Take(KeyBytes(pbkdf2_derive(1, DefaultSalt, opt_salt.v)), SaltLen)

\* C28: every call of hash_custom that returns gives the bytes derived with a
\* salt of exactly 16 bytes: the first 16 bytes of a salt of 16 bytes or more
\* (so any salt with the same first 16 bytes gives the same bytes), the first
\* 16 bytes of one derivation of a shorter salt with one iteration and the
\* default salt (one level of recursion, no more), and the default salt
\* 0x00..0x0F when no salt is given.
C28_SaltPolicy ==
    \A i \in DOMAIN hashOut :
        hashOut[i].res = "ok" =>
            /\ Len(SaltByPolicy(hashArgs.salt)) = SaltLen
            /\ hashOut[i].bytes =
                   KeyBytes(pbkdf2_derive(NumIterOf(hashArgs.iter),
                                          SaltByPolicy(hashArgs.salt), hashArgs.secret))
            /\ \A other \in SaltsTried :
                   (/\ hashArgs.salt.some
                    /\ Len(hashArgs.salt.v) >= SaltLen /\ Len(other) >= SaltLen
                    /\ Take(other, SaltLen) = Take(hashArgs.salt.v, SaltLen)) =>
                       hashOut[i].bytes =
                           hash_custom_call(hashArgs.secret, Some(other), hashArgs.iter).bytes
            /\ (~hashArgs.salt.some => SaltByPolicy(hashArgs.salt) = [j \in 1..16 |-> j - 1])

\* a call with a salt longer than 16 bytes returned, and so did calls with a
\* shorter salt and with none
C28_Witness ==
    /\ Len(hashOut) >= 1 /\ hashOut[1].res = "ok"
    /\ hashArgs.salt.some /\ Len(hashArgs.salt.v) > SaltLen
    /\ \E other \in SaltsTried :
           /\ other # hashArgs.salt.v /\ Len(other) > SaltLen
           /\ Take(other, SaltLen) = Take(hashArgs.salt.v, SaltLen)

\* C29: whatever the secret, the salt option and the iteration count, every
\* call of hash_custom returns exactly 64 bytes, and every repeated call with
\* the same arguments returns the same bytes as the first.
C29_SixtyFourBytesEveryCall ==
    \A i \in DOMAIN hashOut :
        /\ hashOut[i].res = "ok"
        /\ Len(hashOut[i].bytes) = CredentialLen
        /\ hashOut[i].bytes = hashOut[1].bytes

\* the same for the calls whose iteration count is not zero
HashedNonZero ==
    NumIterOf(hashArgs.iter) # 0 => C29_SixtyFourBytesEveryCall

------------------------------------------------------------------------------
(* CryptFile::new over a directory tree.                                      *)

\* an entry that is neither a file nor a directory nor a link to one
OtherKinds == {"other"}

\* std::fs::metadata, which follows links: Err for a link with no target
metadata_ok(t, src) == t[src] # "link_none"

\* read_dir: the immediate children of a directory
read_dir(t, src) == {q \in DOMAIN t : Len(q) = Len(src) + 1 /\ Parent(q) = src}

\* new_internal: a CryptFile, an Err, or the panic of src.to_str().unwrap().
\* The children are built first, each in a worker of par_bridge: a child that
\* comes back as Err is printed and left out, a worker that panics takes the
\* whole call with it.  name_in_arena keeps the hash part of the name only.
RECURSIVE new_internal(_, _, _)
new_internal(t, src, late) ==
    IF ~metadata_ok(t, src) THEN [res |-> "err"]
    ELSE IF t[src] \notin {"file", "link_file", "dir"} THEN [res |-> "err"]
    ELSE \* the bind below evaluates the children once
         LET built == IF t[src] = "dir"
                          THEN {new_internal(t, q, late) : q \in read_dir(t, src)}
                          ELSE {}
         IN  IF \E c \in built : c.res = "panic" THEN [res |-> "panic"]
             ELSE IF ~to_str_ok(src) THEN [res |-> "panic"]
             ELSE IF src \in late THEN [res |-> "err"]
             ELSE [res |-> "ok",
                   file_type |-> IF t[src] = "dir" THEN "DIR" ELSE "FILE",
                   children |-> IF t[src] = "dir"
                                    THEN Some({c \in built : c.res = "ok"})
                                    ELSE None,
                   name_in_arena |-> arena_basename(src),
                   src |-> src]

is_file(cf) == cf.file_type = "FILE"
is_dir(cf) == cf.file_type = "DIR"
ls(cf) == cf.children
source(cf) == cf.src

InitCryptFile ==
    /\ \E t \in TreesUpTo(MaxNamesNodes) :
           \/ tree = t
           \/ \E q \in {e \in DOMAIN t : t[e] = "file"}, k \in LinkKinds \cup OtherKinds :
                  tree = Relink(t, q, k)
    /\ cfLate \in {{}} \cup {{q} : q \in DOMAIN tree}
    /\ cfile = <<>>

InitCryptFileOnly ==
    /\ InitCryptFile
    /\ master = NoKey /\ run = 0 /\ iter = {}
    /\ inflight = {} /\ bcMap = <<>> /\ bcFirst = <<>> /\ npanic = FALSE
    /\ dirsIn = {} /\ todoDirs = {} /\ acc = {} /\ InitHashIdle /\ InitWorkIdle
    /\ InitPipeIdle /\ InitSyncIdle

\* CryptFile::new(src) with src the root of the tree
NewCryptFile ==
    /\ cfile = <<>>
    /\ cfile' = new_internal(tree, SourceOf(tree), cfLate)
    /\ UNCHANGED <<cfLate, dirsIn, todoDirs, acc, hashArgs, hashOut, mkWork, pipeVars,
                   nameVars, syncVars>>

NextCryptFile == NewCryptFile

SpecCryptFile == InitCryptFileOnly /\ [][NextCryptFile]_vars

\* what C30 asks of one CryptFile built from the path q, and of its children
RECURSIVE WellFormed(_, _)
WellFormed(cf, q) ==
    /\ is_file(cf) # is_dir(cf)
    /\ (~ls(cf).some) <=> is_file(cf)
    /\ source(cf) = q
    /\ is_dir(cf) =>
           /\ {source(c) : c \in ls(cf).v} = read_dir(tree, q)
           /\ Cardinality(ls(cf).v) = Cardinality(read_dir(tree, q))
           /\ \A c \in ls(cf).v : WellFormed(c, source(c))

\* C30: a CryptFile built by CryptFile::new is a file or a directory and not
\* both, lists nothing exactly when it is a file, has the path it was built
\* from as its source, and as a directory lists exactly one CryptFile per
\* immediate child of the directory, each of which is again such a CryptFile.
C30_OnePerChild ==
    (cfile # <<>> /\ cfile.res = "ok") => WellFormed(cfile, SourceOf(tree))

\* the same over trees of files and directories alone, with UTF-8 names and
\* no modification time later than the clock
PlainTree ==
    /\ \A q \in DOMAIN tree : tree[q] \in Kinds /\ to_str_ok(q)
    /\ cfLate = {}

PlainTreeWellFormed ==
    (cfile # <<>> /\ PlainTree) => (cfile.res = "ok" /\ WellFormed(cfile, SourceOf(tree)))

------------------------------------------------------------------------------
(* A TextEncoder built by new_custom with a small buffer, read piecewise.     *)

\* largest buffer size handed to new_custom, and longest input read through it
MaxBufSize == 9
MaxBufInput == 10

\* the smallest block size of an encoding (BASE16) is the smallest buffer
\* size new_custom can take without `buf_size - block_size` going below zero
SmallBufSizes == SymBits("BASE16")..MaxBufSize

BufInputs == {[i \in 1..n |-> TextByte(i)] : n \in 0..MaxBufInput}

InitBufs ==
    \E enc \in Encodings, bs \in SmallBufSizes, b \in BufInputs :
        LET c == compose_encoders(<<SourceStage(b, -1)>>, <<"TextEncoder">>, DefaultKey,
                                  enc, bs)
        IN  /\ shape = <<"TextEncoder">>
            /\ key = DefaultKey
            /\ input = b
            /\ pipe = c.st
            /\ pstatus = IF c.res = "ok" THEN "run" ELSE c.res
            /\ phase = "bufs"
            /\ out = <<>> /\ lastLen = -1 /\ lastRet = -1
            /\ zeroSeen = FALSE /\ eosSeen = FALSE
            /\ lateBytes = NoLate

InitBufsOnly == InitBufs /\ InitMkdirIdle /\ InitNamesIdle /\ InitSyncIdle

NextBufs == \E L \in 0..MaxTarget : CallerRead(L)

SpecBufs == InitBufsOnly /\ [][NextBufs]_vars

\* the buffer size a text stage was built with: src_pull_size is
\* buf_size - block_size
BufSizeOf(s) == s.src_pull_size + s.block_size

\* C31: a read of a TextEncoder that returns 0 leaves enc_buf empty, src_buf
\* empty and no unread byte in the inner source, whatever buffer size
\* new_custom accepted and whatever the length of the caller's buffer.
C31_ZeroOnlyAtEnd ==
    (phase = "bufs" /\ pstatus = "run" /\ lastRet = 0) =>
        /\ pipe[2].enc_buf = <<>>
        /\ pipe[2].src_buf = <<>>
        /\ pipe[1].data = <<>>

\* the same for reads with a target of at least one byte
ZeroOnlyAtEndNonEmptyTarget ==
    lastLen >= 1 => C31_ZeroOnlyAtEnd

\* the same for buffers larger than the block size
ZeroOnlyAtEndRoomyBuffer ==
    (phase = "bufs" /\ pstatus = "run" /\ lastLen >= 1 /\ pipe[2].src_pull_size > 0)
        => C31_ZeroOnlyAtEnd

\* the bytes one read moved from src_buf through the encode function: what
\* src_buf held, plus what the read pulled from the source, less what it holds now
ChunkMoved ==
    Len(pipe[2].src_buf) + (Len(pipe[1].data) - Len(pipe'[1].data))
        - Len(pipe'[2].src_buf)

\* a read of the small-buffer encoder that encoded a chunk and left bytes
\* in the inner source unread
ChunkBeforeEnd ==
    /\ phase = "bufs" /\ pstatus = "run" /\ pstatus' = "run"
    /\ ChunkMoved > 0
    /\ pipe'[1].data # <<>>

\* C32: for every buffer size new_custom accepts, a chunk that is moved from
\* src_buf through the encode function while the inner source still has
\* bytes to give has a length that is a positive multiple of block_size and
\* at most buf_size * block_size / 8.
C32_WholeBlocksBeforeEnd ==
    [][ChunkBeforeEnd =>
            /\ ChunkMoved % pipe[2].block_size = 0
            /\ ChunkMoved <= (BufSizeOf(pipe[2]) * pipe[2].block_size) \div 8]_vars

\* the half of it about the size of a chunk
ChunkAtMostPullSize ==
    [][ChunkBeforeEnd => ChunkMoved <= pipe[2].src_buf_pull_size]_vars

\* the same for the buffer sizes whose src_buf_pull_size is a multiple of the
\* block size and no larger than what one refill brings
WholeBlocksScaledBuffer ==
    [][(ChunkBeforeEnd /\ pipe[2].src_buf_pull_size % pipe[2].block_size = 0
            /\ pipe[2].src_buf_pull_size <= pipe[2].src_pull_size)
          => ChunkMoved % pipe[2].block_size = 0]_vars

------------------------------------------------------------------------------
(* The read of Encryptor and Decryptor.                                       *)

\* the last read of the pipeline was a read of an Encryptor or Decryptor
\* with a target of lastLen bytes
CryptorWasRead == OuterKind \in {"Encryptor", "Decryptor"} /\ lastLen >= 0

\* C33: whatever the length L >= 0 of the target of an Encryptor or
\* Decryptor read, L - block_size does not go below zero, input_size is
\* max(1, L - block_size) and at least 1, input_size + block_size is at
\* most L, and the read does not panic.
C33_InputSizeFits ==
    CryptorWasRead =>
        /\ lastLen - BlockSize >= 0
        /\ InputSize(lastLen) = Max(1, lastLen - BlockSize)
        /\ InputSize(lastLen) >= 1
        /\ InputSize(lastLen) + BlockSize <= lastLen
        /\ pstatus # "panic"

\* the same for targets of two bytes and more
InputSizeFitsFromTwo ==
    lastLen >= 2 => C33_InputSizeFits

\* a target of one byte is read without a panic
OneByteTargetRead ==
    (CryptorWasRead /\ lastLen = 1) => pstatus # "panic"

\* a target of no byte ends the read in a panic
EmptyTargetPanics ==
    (CryptorWasRead /\ lastLen = 0) => pstatus = "panic"

\* C34: once a read of an Encryptor or Decryptor with a target of at
\* least one byte has found the inner source exhausted and returned,
\* finalize has been called on its cipher, and no later read returns bytes.
C34_FinalizedAtEnd ==
    (OuterKind \in {"Encryptor", "Decryptor"} /\ pstatus = "run" /\ eosSeen) =>
        /\ pipe[Len(pipe)].fin
        /\ ~lateBytes.eos

\* no read of an Encryptor or Decryptor calls finalize
NeverFinalized ==
    \A i \in DOMAIN pipe : pipe[i].kind \in {"Encryptor", "Decryptor"} => ~pipe[i].fin

\* after the read that found the source exhausted, every read returns 0
ZeroAfterEnd ==
    (OuterKind \in {"Encryptor", "Decryptor"} /\ eosSeen) => ~lateBytes.eos

\* the cipher run once over the whole input of the pipeline
OneShot(mode) == CrypterUpdate(mode, key.id, IvLast, input).bytes

\* C36: what successive reads of an Encryptor have returned is a prefix of
\* the one-shot cipher output over the whole input, which is as long as the
\* input, and is all of it once a read has found the source exhausted,
\* whatever the lengths of the caller's buffers; likewise for a Decryptor.
C36_ChunkingInvisible ==
    /\ (phase = "encode" /\ shape = <<"Encryptor">>) =>
           /\ Len(OneShot("Encrypt")) = Len(input)
           /\ IsPrefix(out, OneShot("Encrypt"))
           /\ (eosSeen /\ pstatus = "run") => out = OneShot("Encrypt")
    /\ (phase = "encode" /\ shape = <<"Decryptor">>) =>
           /\ Len(OneShot("Decrypt")) = Len(input)
           /\ IsPrefix(out, OneShot("Decrypt"))
           /\ (eosSeen /\ pstatus = "run") => out = OneShot("Decrypt")

\* an Encryptor whose last read returned one byte and completed a stream of
\* several bytes, found exhausted by the read after it
C36_Witness ==
    /\ phase = "encode" /\ shape = <<"Encryptor">> /\ pstatus = "run"
    /\ Len(input) >= 2
    /\ out = OneShot("Encrypt")
    /\ lastRet = 1 /\ lastLen = MaxTarget

------------------------------------------------------------------------------
(* write_all_to on its own: a pipeline drained into a target that may fail,   *)
(* over a source whose reads may fail.                                        *)

\* the targets drained into: a Vec, a writer that fails at once, and one that
\* fails after its first byte
DrainTargets == {"drain_vec", "drain_full", "drain_short"}

TargetRoom(target_kind) ==
    CASE target_kind = "drain_vec" -> -1
      [] target_kind = "drain_full" -> 0
      [] OTHER -> 1

InitDrain ==
    \E sh \in Shapes, k \in Keys, enc \in Encodings, b \in Inputs,
       fail \in -1..MaxLen, tk \in DrainTargets :
        LET text == IF sh = <<"TextDecoder">> THEN Encode(enc, b) ELSE b
            c == compose_encoders(<<SourceStage(text, fail)>>, sh, k, enc, DefaultBufSize)
        IN  /\ HasCryptor(sh) \/ k = DefaultKey
            /\ HasText(sh) \/ enc = "BASE16"
            /\ fail <= Len(text)
            /\ shape = sh
            /\ key = k
            /\ input = text
            /\ pipe = c.st
            /\ pstatus = IF c.res = "ok" THEN "run" ELSE c.res
            /\ phase = tk
            /\ out = <<>> /\ lastLen = -1 /\ lastRet = -1
            /\ zeroSeen = FALSE /\ eosSeen = FALSE
            /\ lateBytes = NoLate

InitDrainOnly == InitDrain /\ InitMkdirIdle /\ InitNamesIdle /\ InitSyncIdle

\* write_all_to(target, buf_size), at most twice on the same pipeline;
\* lastRet is the count it returned (-1 for an Err), out what the target
\* of this call received
DrainTo(buf_size) ==
    /\ pstatus = "run" /\ ~eosSeen
    /\ \E r \in {write_all_to_env(pipe, buf_size, TargetRoom(phase))} :
        /\ pipe' = r.st
        /\ pstatus' = IF r.res = "ok" THEN "run" ELSE r.res
        /\ out' = r.target
        /\ lastLen' = IF buf_size = 0 THEN DefaultDrainSize ELSE buf_size
        /\ lastRet' = IF r.res = "ok" THEN r.count ELSE -1
    /\ zeroSeen' = TRUE
    /\ eosSeen' = zeroSeen
    /\ UNCHANGED <<input, key, shape, phase, lateBytes, mkdirVars, nameVars, syncVars>>

NextDrain == \E b \in 0..MaxTarget : DrainTo(b)

SpecDrain == InitDrainOnly /\ [][NextDrain]_vars

\* a call of write_all_to has ended
Drained == phase \in DrainTargets /\ zeroSeen

\* C37: write_all_to reads with a buffer of buf_size bytes, 4096 for None or
\* 0.  When it returns a count, the count is the number of bytes the target
\* received, the source has been read to its end, the next read of the
\* pipeline returns 0, and a second call returns 0 and writes nothing; for an
\* Encryptor the target received the one-shot cipher output and for a
\* TextEncoder the one-shot encoding.  When a read of the source or a write
\* to the target fails it returns an Err and no count, and the target has
\* received no byte past the failure.
C37_DrainContract ==
    Drained =>
        /\ lastLen \in (1..MaxTarget) \cup {DefaultDrainSize}
        /\ pstatus \in {"run", "err"}
        /\ pstatus = "run" =>
               /\ lastRet = Len(out)
               /\ pipe[1].data = <<>> /\ pipe[1].fail # 0
               /\ read(pipe, 1).res = "ok" /\ read(pipe, 1).out = <<>>
               /\ eosSeen => lastRet = 0
               /\ (~eosSeen /\ shape = <<"Encryptor">>) => out = OneShot("Encrypt")
               /\ (~eosSeen /\ shape = <<"TextEncoder">>) => out = Encode(pipe[2].enc, input)
               /\ TargetRoom(phase) >= 0 => Len(out) <= TargetRoom(phase)
        /\ pstatus = "err" =>
               /\ lastRet = -1
               /\ TargetRoom(phase) >= 0 => Len(out) <= TargetRoom(phase)
        /\ pipe[1].fail = 0 => pstatus = "err"
        /\ (phase = "drain_full" /\ shape = <<"Encryptor">> /\ input # <<>>)
               => pstatus = "err"

\* a drain of the sync pipeline in several chunks that returned its count
C37_Witness ==
    /\ Drained /\ ~eosSeen
    /\ pstatus = "run" /\ lastLen = 1 /\ lastRet >= 2 /\ shape = SyncShape

\* a drain that ended on a read error of the source after some bytes went out
DrainReadError ==
    /\ Drained /\ pstatus = "err" /\ pipe[1].fail = 0
    /\ phase = "drain_vec" /\ Len(out) >= 1

\* a drain that ended on a write error of the target
DrainWriteError ==
    /\ Drained /\ pstatus = "err" /\ pipe[1].fail # 0
    /\ phase = "drain_short" /\ Len(out) = 1

------------------------------------------------------------------------------
(* The two buffers of a TextEncoder.                                          *)

\* the text stages of the pipeline
TextStages == {i \in DOMAIN pipe : pipe[i].kind \in {"TextEncoder", "TextDecoder"}}

\* C38: in every reachable state of a TextEncoder or TextDecoder built with
\* buffer size buf_size, src_buf and enc_buf each hold at most buf_size bytes.
C38_BuffersWithinBufSize ==
    pstatus = "run" =>
        \A i \in TextStages :
            /\ Len(pipe[i].src_buf) <= BufSizeOf(pipe[i])
            /\ Len(pipe[i].enc_buf) <= BufSizeOf(pipe[i])

\* the half of it about src_buf
SrcBufWithinBufSize ==
    pstatus = "run" => \A i \in TextStages : Len(pipe[i].src_buf) < BufSizeOf(pipe[i])

\* one read takes at most two refills from the inner source, whatever the
\* length of the input
PullsPerReadBounded ==
    [][(phase = "bufs" /\ pstatus = "run")
          => Len(pipe[1].data) - Len(pipe'[1].data) <= 2 * pipe[2].src_pull_size]_vars

-----------------------------------------------------------------------------
(* The destination paths of one sync: path_ciphertexts as a map from source  *)
(* paths to ciphertext paths, and the rename of each scratch file onto its   *)
(* entry (crypt_syncer.rs, lines 79-83, 118-142 and 171-180).                *)

\* two directories of the root whose names are not UTF-8
TwinDirs == {<<RootName, "x">>, <<RootName, "y">>}

\* a root with the two directories, each holding an entry n of kind k, and a
\* file f in it when n is a directory
TwinTree(n, k, f) ==
    LET entries == {Append(d, n) : d \in TwinDirs}
        files   == IF k = "dir" THEN {Append(e, f) : e \in entries} ELSE {}
    IN  [q \in {Source} \cup TwinDirs \cup entries \cup files |->
            IF q \in files THEN "file" ELSE IF q \in entries THEN k ELSE "dir"]

TwinTrees == {TwinTree(n, k, f) : n \in {"a", "b"}, k \in Kinds, f \in {"a", "b"}}

\* the trees of a source given as ./r
DotTrees == {Reroot(t, <<CurDir>>) : t \in TreesUpTo(MaxNamesNodes)}

InitTwins ==
    /\ tree \in TreesUpTo(MaxNamesNodes) \cup TwinTrees \cup DotTrees
    /\ master \in MasterKeys
    /\ run = 0 /\ iter = {} /\ inflight = {} /\ bcMap = <<>> /\ bcFirst = <<>>
    /\ npanic = FALSE
    /\ sphase = "start" /\ pathMap = <<>> /\ mkTodo = {} /\ destDirs = {}
    /\ destFiles = <<>> /\ arena = <<>> /\ fstate = <<>> /\ ioFault = <<>>
    /\ spanic = FALSE /\ outDir = "dir" /\ arenaDir = "live"
    /\ destFirst = <<>>

InitTwinsOnly == InitTwins /\ InitPipeIdle /\ InitMkdirIdle

SpecTwins == InitTwinsOnly /\ [][NextSync]_vars

\* no two keys of the map have the same value
Injective(m) == \A p, q \in DOMAIN m : p # q => m[p] # m[q]

\* the worker of f is about to rename its scratch file and the target path is
\* already in the destination
TargetTaken(f) ==
    /\ sphase = "files" /\ fstate[f] = "encoded"
    /\ pathMap[f] \in DOMAIN destFiles \cup destDirs \cup {<<>>}

\* C39: the path map of a sync sends distinct source paths to distinct
\* destination paths, and no file worker that is about to rename its scratch
\* file finds its target path already produced in the destination.
C39_DistinctTargets ==
    /\ Injective(pathMap)
    /\ \A f \in DOMAIN fstate : ~TargetTaken(f)

\* for a source given by its plain relative name whose paths are all UTF-8
\* the map is injective and no worker finds its target taken
DistinctTargetsPlainUtf8 ==
    (SourceOf(tree) = Source /\ \A q \in DOMAIN tree : to_str_ok(q)) =>
        /\ Injective(pathMap)
        /\ \A f \in DOMAIN fstate : ~TargetTaken(f)

\* the entries a of the twin directories have one destination path
TwinEntriesCollide ==
    /\ tree \in TwinTrees /\ sphase = "mkdir"
    /\ pathMap[<<RootName, "x", "a">>] = pathMap[<<RootName, "y", "a">>]

\* the file ./r: its one entry of the map is keyed r and is the empty path,
\* so the worker is about to rename the scratch file onto out_dir itself
DotFileOntoOutDir ==
    /\ tree = Reroot([q \in {Source} |-> "file"], <<CurDir>>)
    /\ DOMAIN pathMap = {Source} /\ pathMap[Source] = <<>>
    /\ TargetTaken(Source)

\* the rename of the file ./r has run with no fault of the filesystem: the
\* worker has panicked, with or without debug assertions
DotFilePanics ==
    /\ tree = Reroot([q \in {Source} |-> "file"], <<CurDir>>)
    /\ Source \in DOMAIN fstate /\ fstate[Source] = "panic" /\ ioFault[Source] = "none"

\* the file ./r is never renamed into the destination
DotFileNeverRenamed ==
    tree = Reroot([q \in {Source} |-> "file"], <<CurDir>>) =>
        /\ destFiles = <<>>
        /\ \A f \in DOMAIN fstate : fstate[f] # "renamed"

-----------------------------------------------------------------------------
(* The mkdir chain of sync, worker by worker (crypt_syncer.rs, lines 47-54). *)
(* create_dir_all is std::fs: it calls mkdir on the path, on NotFound makes  *)
(* the parent the same way and calls mkdir again, and takes a failing mkdir  *)
(* as a success when the path is a directory by then.  A step of a worker is *)
(* one mkdir call; the workers of rayon interleave between the calls.        *)

InitRace ==
    /\ tree \in TreesUpTo(MaxNodes) \cup DotTrees
    /\ master \in MasterKeys
    /\ run = 0 /\ iter = {} /\ inflight = {} /\ bcMap = <<>> /\ bcFirst = <<>>
    /\ npanic = FALSE
    /\ sphase = "start" /\ pathMap = <<>> /\ mkTodo = {} /\ destDirs = {}
    /\ destFiles = <<>> /\ arena = <<>> /\ fstate = <<>> /\ ioFault = <<>>
    /\ spanic = FALSE /\ outDir = "dir" /\ arenaDir = "live"
    /\ destFirst = <<>>

InitRaceOnly == InitRace /\ InitPipeIdle /\ InitMkdirIdle

\* lines 49-52: a worker takes an element of the mkdir set, looks it up in
\* the path map, unwraps the Option and joins the result to out_dir
MkdirLookup(dir_path) ==
    /\ sphase = "mkdir"
    /\ dir_path \in mkTodo
    /\ mkTodo' = mkTodo \ {dir_path}
    /\ IF dir_path \notin DOMAIN pathMap
       THEN /\ mkWork' = Insert(mkWork, dir_path,
                                [path |-> <<>>, n |-> 0, up |-> FALSE, lost |-> FALSE,
                                 res |-> "panic"])
            /\ spanic' = TRUE
       ELSE /\ mkWork' = Insert(mkWork, dir_path,
                                [path |-> pathMap[dir_path], n |-> Len(pathMap[dir_path]),
                                 up |-> FALSE, lost |-> FALSE, res |-> "run"])
            /\ UNCHANGED spanic
    /\ UNCHANGED <<sphase, pathMap, destDirs, destFiles, arena, fstate, ioFault, nameVars,
                   pipeVars, dirsIn, todoDirs, acc, hashArgs, hashOut, cfLate, cfile,
                   outDir, arenaDir, destFirst>>

\* one mkdir call of create_dir_all on the first w.n segments of the path,
\* on the way down to an existing ancestor or (w.up) on the way back; `ok` is
\* whether the filesystem lets the call through
MkdirCall(dir_path, ok) ==
    /\ sphase = "mkdir"
    /\ dir_path \in DOMAIN mkWork /\ mkWork[dir_path].res = "run"
    /\ LET w == mkWork[dir_path]
           p == SubSeq(w.path, 1, w.n)
           parent_is_dir == w.n <= 1 \/ Parent(p) \in destDirs
           exists_as_dir == w.n = 0 \/ p \in destDirs
           exists_as_file == p \in DOMAIN destFiles
           next == IF w.n = Len(w.path) THEN [w EXCEPT !.res = "ok"]
                   ELSE [w EXCEPT !.n = w.n + 1, !.up = TRUE]
       IN  IF ~ok
           THEN \* Err(e) with e not NotFound and the path no directory
                /\ mkWork' = [mkWork EXCEPT ![dir_path].res = "fault"]
                /\ spanic' = TRUE
                /\ UNCHANGED destDirs
           ELSE IF ~parent_is_dir
           THEN \* NotFound: into the parent, or Err on the second call
                /\ mkWork' = [mkWork EXCEPT ![dir_path] =
                                 IF w.up THEN [w EXCEPT !.res = "err"]
                                 ELSE [w EXCEPT !.n = w.n - 1]]
                /\ spanic' = (spanic \/ w.up)
                /\ UNCHANGED destDirs
           ELSE IF exists_as_file
           THEN \* AlreadyExists and path.exists_as_dir() is false
                /\ mkWork' = [mkWork EXCEPT ![dir_path].res = "err"]
                /\ spanic' = TRUE
                /\ UNCHANGED destDirs
           ELSE \* Ok(()), or AlreadyExists and path.exists_as_dir()
                /\ mkWork' = [mkWork EXCEPT ![dir_path] =
                                 [next EXCEPT !.lost = w.lost \/ exists_as_dir]]
                /\ destDirs' = IF w.n = 0 THEN destDirs ELSE destDirs \cup {p}
                /\ UNCHANGED spanic
    /\ UNCHANGED <<sphase, pathMap, mkTodo, destFiles, arena, fstate, ioFault, nameVars,
                   pipeVars, dirsIn, todoDirs, acc, hashArgs, hashOut, cfLate, cfile,
                   outDir, arenaDir, destFirst>>

\* for_each has returned, or has unwound once the running workers are done
EndMkdirRace ==
    /\ sphase = "mkdir"
    /\ mkdir_step_done(mkTodo, spanic)
    /\ \A d \in DOMAIN mkWork : mkWork[d].res # "run"
    /\ sphase' = IF spanic THEN "panic" ELSE "files"
    /\ UNCHANGED <<pathMap, mkTodo, destDirs, destFiles, arena, fstate, ioFault,
                   spanic, nameVars, pipeVars, mkdirVars, outDir, arenaDir, destFirst>>

NextRace ==
    \/ SyncStart
    \/ \E d \in DOMAIN tree : MkdirLookup(d)
    \/ \E d \in DOMAIN tree, ok \in BOOLEAN : MkdirCall(d, ok)
    \/ EndMkdirRace

SpecRace == InitRaceOnly /\ [][NextRace]_vars

\* no worker of the mkdir chain has failed but by a refusal of the filesystem
EveryCallSucceeds == \A d \in DOMAIN mkWork : mkWork[d].res \in {"run", "ok", "fault"}

\* the mkdir chain has returned and every directory of the source has its
\* ciphertext directory in the destination
EveryDirCreated ==
    sphase = "files" =>
        \A d \in DirsOf(tree) : d \in DOMAIN pathMap /\ pathMap[d] \in destDirs

\* C40: in every interleaving of the workers of the mkdir chain, every call
\* succeeds (no worker fails unless the filesystem refuses a mkdir), and
\* once the chain has returned the destination holds the ciphertext
\* directory of every directory of the source.
C40_MkdirRaceFree == EveryCallSucceeds /\ EveryDirCreated

\* the same for a source given by its plain relative name whose paths are
\* all UTF-8
MkdirRaceFreePlainUtf8 ==
    (SourceOf(tree) = Source /\ \A q \in DOMAIN tree : to_str_ok(q)) =>
        EveryCallSucceeds /\ EveryDirCreated

\* two workers have both found the shared ancestor missing, one has made it,
\* the other has lost the race, and both have finished with success
SharedAncestorRaced ==
    \E d, e \in DOMAIN mkWork :
        /\ d # e /\ mkWork[d].res = "ok" /\ mkWork[e].res = "ok"
        /\ ~mkWork[d].lost /\ mkWork[e].lost
        /\ sphase = "files"

\* the directory r/x has no entry in the path map: the worker that takes it
\* panics in Option::unwrap
LookupPanics == \E d \in DOMAIN mkWork : mkWork[d].res = "panic" /\ ~to_str_ok(d)

\* the directory ./r is looked up by a key the path map does not have
DotLookupPanics ==
    \E d \in DOMAIN mkWork : mkWork[d].res = "panic" /\ d[1] = CurDir

\* the chain has returned without a panic and the directory r/x has no
\* ciphertext directory
DirLeftOut ==
    /\ sphase = "files"
    /\ \E d \in DirsOf(tree) : d \notin DOMAIN pathMap

====
